---- MODULE Spec2Model ----
(***************************************************************************)
(* Model of the ETL pipeline of zlovtnik/dds (src/src/etl.rs):             *)
(* ETLPipeline::process_file and ETLPipeline::process_directory, the       *)
(* json_data table they insert into, and the flatten routine that the      *)
(* specification describes.                                                *)
(***************************************************************************)
EXTENDS Integers, Sequences, FiniteSets, TLC

(***************************************************************************)
(* Bounds of the model.                                                    *)
(***************************************************************************)
\* longest directory listing a process_directory call is given
MaxEntries == 2
\* number of top-level calls (process_file or process_directory) of a run
MaxCalls == 1
\* largest JSON tree handed to flatten, in nodes
MaxSize == 4

\* statements the callers of the user repository send in total
MaxStatements == 2

\* callers that use the pipeline at the same time
NumCallers == 2

\* how many mutations are started in one behaviour
MaxMutations == 2

\* how many values the event channel keeps; stands for broadcast::channel(100)
Capacity == 1

(***************************************************************************)
(* JSON values (serde_json::Value).  Every value is a record of the same   *)
(* shape: t is the variant, s the text of a scalar, items the members of   *)
(* an object as <<key, value>> pairs or the elements of an array as        *)
(* <<"", value>> pairs.                                                    *)
(***************************************************************************)
JScalar(s) == [t |-> "scalar", s |-> s, items |-> <<>>]

JArray(vals) ==
    [t |-> "array", s |-> "",
     items |-> [i \in 1..Len(vals) |-> <<"", vals[i]>>]]

JObject(pairs) == [t |-> "object", s |-> "", items |-> pairs]

\* Tokens of the JSON texts of the model.
KeyOrder == <<"a", "a_b", "b", "c", "d">>

KeyToks == {KeyOrder[i] : i \in 1..Len(KeyOrder)}

ScalarToks == {"1", "2", "3", "null", "true"}

Rank(k) == CHOOSE i \in 1..Len(KeyOrder) : KeyOrder[i] = k

\* serde_json::Map::insert: members are kept ordered by key, and a key that
\* is inserted again replaces the member it names.
MapInsert(pairs, k, v) ==
    LET others == SelectSeq(pairs, LAMBDA p : p[1] # k)
        before == SelectSeq(others, LAMBDA p : Rank(p[1]) < Rank(k))
        after  == SelectSeq(others, LAMBDA p : Rank(p[1]) > Rank(k))
    IN  before \o << <<k, v>> >> \o after

ParseFail == [ok |-> FALSE, val |-> JScalar("null"), rest |-> <<>>]

ParseOk(v, rest) == [ok |-> TRUE, val |-> v, rest |-> rest]

RECURSIVE ParseValue(_), ParseElements(_, _), ParseMembers(_, _)

\* one JSON value at the head of the token sequence
ParseValue(toks) ==
    IF toks = <<>> THEN ParseFail
    ELSE LET h == Head(toks)
             r == Tail(toks)
         IN  IF h \in ScalarToks \cup KeyToks THEN ParseOk(JScalar(h), r)
             ELSE IF h = "[" THEN
                 IF r # <<>> /\ Head(r) = "]"
                 THEN ParseOk(JArray(<<>>), Tail(r))
                 ELSE ParseElements(r, <<>>)
             ELSE IF h = "{" THEN
                 IF r # <<>> /\ Head(r) = "}"
                 THEN ParseOk(JObject(<<>>), Tail(r))
                 ELSE ParseMembers(r, <<>>)
             ELSE ParseFail

\* the elements of an array, after its "[" or a ","
ParseElements(toks, acc) ==
    LET e == ParseValue(toks)
    IN  IF ~e.ok \/ e.rest = <<>> THEN ParseFail
        ELSE IF Head(e.rest) = ","
             THEN ParseElements(Tail(e.rest), Append(acc, e.val))
        ELSE IF Head(e.rest) = "]"
             THEN ParseOk(JArray(Append(acc, e.val)), Tail(e.rest))
        ELSE ParseFail

\* the members of an object, after its "{" or a ","
ParseMembers(toks, acc) ==
    IF Len(toks) < 2 \/ Head(toks) \notin KeyToks \/ toks[2] # ":"
    THEN ParseFail
    ELSE LET k == Head(toks)
             e == ParseValue(Tail(Tail(toks)))
         IN  IF ~e.ok \/ e.rest = <<>> THEN ParseFail
             ELSE IF Head(e.rest) = ","
                  THEN ParseMembers(Tail(e.rest), MapInsert(acc, k, e.val))
             ELSE IF Head(e.rest) = "}"
                  THEN ParseOk(JObject(MapInsert(acc, k, e.val)), Tail(e.rest))
             ELSE ParseFail

\* serde_json::from_str: one value, and nothing after it
from_str(text) ==
    LET r == ParseValue(text)
    IN  IF r.ok /\ r.rest = <<>> THEN [ok |-> TRUE, val |-> r.val]
        ELSE [ok |-> FALSE, val |-> JScalar("null")]

(***************************************************************************)
(* flatten(value, prefix) -> FlatRecord, as the specification gives it     *)
(* (section 4.1): a mapping from compound key to value.                    *)
(***************************************************************************)
\* the separator left out of the compound key
new_prefix_NoSeparator(prefix, key) == prefix \o key

\* the separator put in front of a top-level key too
new_prefix_AlwaysJoins(prefix, key) == prefix \o "_" \o key

new_prefix(prefix, key) ==
    IF prefix = "" THEN key ELSE prefix \o "_" \o key

\* an entry already present kept against a later one
Merge_KeepsEarlier(earlier, later) == earlier @@ later

\* entries of later overwrite entries of earlier
Merge(earlier, later) == later @@ earlier

RECURSIVE flatten(_, _)

\* the key an array element would get from its index
IndexKey(i) == <<"0", "1", "2">>[i]

\* arrays expanded like objects, each element keyed by its index
flatten_ExpandsArrays(value, prefix) ==
    IF value.t = "scalar" THEN prefix :> value
    ELSE LET n == Len(value.items)
             F[i \in 0..n] ==
                 IF i = 0 THEN <<>>
                 ELSE LET key   == IF value.t = "array" THEN IndexKey(i)
                                   ELSE value.items[i][1]
                          child == value.items[i][2]
                          np    == new_prefix(prefix, key)
                      IN  Merge(F[i - 1], flatten(child, np))
         IN  F[n]

\* a top-level value that is not an object gives no entry
flatten_ObjectsOnly(value, prefix) ==
    IF value.t # "object" THEN <<>>
    ELSE LET n == Len(value.items)
             F[i \in 0..n] ==
                 IF i = 0 THEN <<>>
                 ELSE LET key   == value.items[i][1]
                          child == value.items[i][2]
                          np    == new_prefix(prefix, key)
                      IN  Merge(F[i - 1],
                                IF child.t = "object"
                                THEN flatten(child, np)
                                ELSE np :> child)
         IN  F[n]

flatten(value, prefix) ==
    IF value.t # "object" THEN prefix :> value
    ELSE LET n == Len(value.items)
             F[i \in 0..n] ==
                 IF i = 0 THEN <<>>
                 ELSE LET key   == value.items[i][1]
                          child == value.items[i][2]
                          np    == new_prefix(prefix, key)
                      IN  Merge(F[i - 1],
                                IF child.t = "object"
                                THEN flatten(child, np)
                                ELSE np :> child)
         IN  F[n]

(***************************************************************************)
(* Paths.  A file name is its sequence of characters; "<FF>" stands for a  *)
(* byte that is not valid UTF-8.                                           *)
(***************************************************************************)
IsUtf8(name) == \A i \in 1..Len(name) : name[i] # "<FF>"

Unknown == <<"u", "n", "k", "n", "o", "w", "n">>

\* Path::file_name: the last component of the path
LastComponent(path) ==
    LET slashes == {i \in 1..Len(path) : path[i] = "/"}
        start   == IF slashes = {} THEN 1
                   ELSE 1 + CHOOSE i \in slashes : \A j \in slashes : j <= i
    IN  SubSeq(path, start, Len(path))

\* the whole path stored instead of its last component
FileNameOf_WholePath(path) == IF IsUtf8(path) THEN path ELSE Unknown

\* file_path.file_name().and_then(|name| name.to_str()).unwrap_or("unknown")
FileNameOf(path) ==
    IF IsUtf8(LastComponent(path)) THEN LastComponent(path) ELSE Unknown

Dots(name) == {i \in 1..Len(name) : name[i] = "."}

\* Path::extension: the part of the file name after its last dot, when the
\* name has a dot that is not its first character.
HasExtension(name) ==
    /\ Dots(name) # {}
    /\ (CHOOSE i \in Dots(name) : \A j \in Dots(name) : j <= i) > 1

Extension(name) ==
    LET last == CHOOSE i \in Dots(name) : \A j \in Dots(name) : j <= i
    IN  SubSeq(name, last + 1, Len(name))

Json == <<"j", "s", "o", "n">>

\* the text after the last dot taken as extension even when no stem
\* precedes the dot
IsJsonPath_NoStem(name) == Dots(name) # {} /\ Extension(name) = Json

\* path.extension().and_then(|s| s.to_str()) == Some("json")
IsJsonPath(name) ==
    HasExtension(name) /\ IsUtf8(Extension(name)) /\ Extension(name) = Json

(***************************************************************************)
(* The file system the calls read: what is on disk under each path.        *)
(***************************************************************************)
OnDisk(name, status, text) == [path |-> name, status |-> status, text |-> text]

TextNested ==
    <<"{", "a", ":", "{", "b", ":", "1", ",",
      "c", ":", "{", "d", ":", "2", "}", "}", "}">>

TextArray == <<"{", "a", ":", "[", "1", ",", "2", ",", "3", "]", "}">>

TextScalar == <<"3">>

TextFlat == <<"{", "a", ":", "1", ",", "b", ":", "true", "}">>

TextCollide ==
    <<"{", "a_b", ":", "1", ",", "a", ":", "{", "b", ":", "2", "}", "}">>

TextMalformed == <<"{", "a", ":", "}">>

\* entries a directory listing can hold
Listable ==
    { OnDisk(<<"a", ".", "j", "s", "o", "n">>, "ok", TextNested),
      OnDisk(<<"b", ".", "t", "x", "t">>, "ok", TextArray),
      OnDisk(<<"c", ".", "J", "S", "O", "N">>, "ok", TextScalar),
      OnDisk(<<".", "j", "s", "o", "n">>, "ok", TextFlat),
      OnDisk(<<"d", ".", "j", "s", "o", "n">>, "ok", TextMalformed),
      OnDisk(<<"e", ".", "j", "s", "o", "n">>, "PermissionDenied", <<>>),
      OnDisk(<<"f", ".", "j", "s", "o", "n">>, "IsADirectory", <<>>),
      OnDisk(<<"g", ".", "j", "s", "o", "n">>, "ok", TextCollide),
      OnDisk(<<"<FF>", ".", "j", "s", "o", "n">>, "ok", TextFlat) }

\* paths a caller can hand to process_file
Paths ==
    Listable \cup
    { OnDisk(<<"m", ".", "j", "s", "o", "n">>, "NotFound", <<>>),
      OnDisk(<<"h", ".", "j", "s", "o", "n">>, "InvalidData", <<>>),
      OnDisk(<<"x", "/", "k", ".", "j", "s", "o", "n">>, "ok", TextArray) }

\* errors of the file system on listing a directory or reading an entry
DirErrors == {"NotFound", "PermissionDenied"}

\* directories a caller can hand to process_directory
Dirs == {[status |-> st] : st \in {"ok"} \cup DirErrors}

NoDir == [status |-> "none"]

\* a listing failure defaulted to an empty listing
read_dir_OrEmpty(dir) == [ok |-> TRUE, err |-> "none"]

\* fs::read_dir
read_dir(dir) ==
    IF dir.status = "ok" THEN [ok |-> TRUE, err |-> "none"]
    ELSE [ok |-> FALSE, err |-> dir.status]

\* a read failure defaulted to empty content
read_to_string_OrEmpty(file) ==
    [ok |-> TRUE, text |-> IF file.status = "ok" THEN file.text ELSE <<>>,
     err |-> "none"]

\* fs::read_to_string
read_to_string(file) ==
    IF file.status = "ok"
    THEN [ok |-> TRUE, text |-> file.text, err |-> "none"]
    ELSE [ok |-> FALSE, text |-> <<>>, err |-> file.status]

(***************************************************************************)
(* Results and errors (ETLPipelineError).                                  *)
(***************************************************************************)
NoErr == [kind |-> "none", detail |-> "none"]

Ok == [ok |-> TRUE, err |-> NoErr]

Err(kind, detail) == [ok |-> FALSE, err |-> [kind |-> kind, detail |-> detail]]

Pending == Err("pending", "none")

\* errors the store can refuse an insertion statement with
StoreErrors == {"constraint violation", "type mismatch"}

(***************************************************************************)
(* The insertion statement and the store.                                  *)
(***************************************************************************)
BindText(name) == [kind |-> "text", text |-> name, json |-> JScalar("null")]

BindJson(v) == [kind |-> "json", text |-> <<>>, json |-> v]

NoStmt == [table |-> "none", columns |-> <<>>, values |-> <<>>]

\* the keys of the document written into the column list
InsertStmt_KeysAsColumns(file_name, json_value) ==
    LET members == IF json_value.t = "object" THEN json_value.items ELSE <<>>
    IN  [table   |-> "json_data",
         columns |-> <<"file_name">>
                     \o [i \in 1..Len(members) |-> members[i][1]],
         values  |-> <<BindText(file_name)>>
                     \o [i \in 1..Len(members) |-> BindJson(members[i][2])]]

\* the two values bound in the wrong order
InsertStmt_SwappedBinds(file_name, json_value) ==
    [table   |-> "json_data",
     columns |-> <<"file_name", "data">>,
     values  |-> <<BindJson(json_value), BindText(file_name)>>]

\* INSERT INTO json_data (file_name, data) VALUES ($1, $2)
InsertStmt(file_name, json_value) ==
    [table   |-> "json_data",
     columns |-> <<"file_name", "data">>,
     values  |-> <<BindText(file_name), BindJson(json_value)>>]

\* placeholders counted from the wrong end of the column list
RowOf_Misaligned(stmt) ==
    [col \in {stmt.columns[i] : i \in 1..Len(stmt.columns)} |->
        stmt.values[Len(stmt.columns) + 1
                    - CHOOSE i \in 1..Len(stmt.columns) : stmt.columns[i] = col]]

\* the row a statement inserts: each column with the value bound to its
\* placeholder
RowOf(stmt) ==
    [col \in {stmt.columns[i] : i \in 1..Len(stmt.columns)} |->
        stmt.values[CHOOSE i \in 1..Len(stmt.columns) : stmt.columns[i] = col]]

\* the store executes the statement
ExecuteOk(rows, stmt) == Append(rows, RowOf(stmt))

\* a refused statement that leaves the columns it had written
ExecuteFail_LeavesRow(rows, stmt) ==
    Append(rows, [col \in {stmt.columns[1]} |-> stmt.values[1]])

\* the store refuses the statement: a single statement is atomic
ExecuteFail(rows, stmt) == rows

(***************************************************************************)
(* process_file up to the point where it awaits the store: read, parse,    *)
(* bind.  steps lists what it did.                                         *)
(***************************************************************************)
\* a parse failure defaulted to null instead of returned
PfPrepare_NullOnParseError(file) ==
    LET content == read_to_string(file)
        parsed  == from_str(content.text)
    IN  IF ~content.ok
        THEN [res   |-> Err("FileReadError", content.err),
              stmt  |-> NoStmt,
              steps |-> <<"read">>]
        ELSE [res   |-> Pending,
              stmt  |-> InsertStmt(FileNameOf(file.path), parsed.val),
              steps |-> <<"read", "parse", "bind">>]

PfPrepare(file) ==
    LET content == read_to_string(file)
        parsed  == from_str(content.text)
    IN  IF ~content.ok
        THEN [res   |-> Err("FileReadError", content.err),
              stmt  |-> NoStmt,
              steps |-> <<"read">>]
        ELSE IF ~parsed.ok
        THEN [res   |-> Err("JsonParseError", "syntax"),
              stmt  |-> NoStmt,
              steps |-> <<"read", "parse">>]
        ELSE [res   |-> Pending,
              stmt  |-> InsertStmt(FileNameOf(file.path), parsed.val),
              steps |-> <<"read", "parse", "bind">>]

\* the result process_file returns once the store has answered
PfStoreOk == Ok

\* the store's error dropped
PfStoreErr_Swallowed(e) == Ok

PfStoreErr(e) == Err("DatabaseError", e)

(***************************************************************************)
(* State.                                                                  *)
(***************************************************************************)
VARIABLES
    table,            \* rows of json_data, in insertion order
    pc,               \* where the caller is: idle, pf_exec, pd_loop, pd_exec, done
    op,               \* the call being made: none, process_file, process_directory
    dir_path,         \* process_directory: the directory it was called with
    result,           \* what the last finished call returned
    stmt,             \* the insertion statement awaiting the store
    visited,          \* process_directory: the entries the listing has yielded
    processed_files,  \* process_directory: its counter of successes
    failed_files,     \* process_directory: its counter of failures
    log,              \* the process_file invocations of the call, in order
    table0,           \* the rows of json_data when the call started
    calls,            \* number of calls started
    doc,              \* flatten: the JSON tree handed to it
    flat,             \* flatten: the FlatRecord it returned
    fpc,              \* flatten: building (the tree), flattened
    tasks,            \* concurrent callers of process_file: each one's call
    users,            \* rows of public.users
    sessions,         \* callers of the user repository: each one's statement
    now,              \* the store's clock, what NOW() reads
    issued,           \* ids Uuid::new_v4 has handed out
    history,          \* the statements the store has executed, in order
    entities,         \* rows of jobs, tasks and pipeline_runs
    requests,         \* callers of the mutations: each one's position
    clock,            \* what chrono::Utc::now() reads
    writes,           \* the statements of mutations the store has executed
    emitted,          \* the events handed to event_sender.send, in order
    channel,          \* the broadcast channel behind event_sender
    subscribers       \* the streams etl_events has returned

\* the state of one caller of the pipeline, without the table
callVars == <<pc, op, dir_path, result, stmt, visited, processed_files,
              failed_files, log, table0, calls>>

etlVars == <<table, callVars>>

flattenVars == <<doc, flat, fpc>>

taskVars == <<tasks>>

userVars == <<users, sessions, now, issued, history>>

eventVars == <<entities, requests, clock, writes, emitted, channel,
               subscribers>>

vars == <<etlVars, flattenVars, taskVars, userVars, eventVars>>

\* what the actions of each part leave alone
notEtlVars == <<flattenVars, taskVars, userVars, eventVars>>

notFlattenVars == <<etlVars, taskVars, userVars, eventVars>>

notTaskVars == <<callVars, flattenVars, userVars, eventVars>>

notUserVars == <<etlVars, flattenVars, taskVars, eventVars>>

notEventVars == <<etlVars, flattenVars, taskVars, userVars>>

\* tables the pool can hold when the pipeline is constructed
InitTables ==
    { <<>>,
      << RowOf(InsertStmt(<<"o", "l", "d">>, JScalar("1"))) >> }

EtlInit(tables) ==
    /\ table \in tables
    /\ pc = "idle"
    /\ op = "none"
    /\ dir_path = NoDir
    /\ result = Pending
    /\ stmt = NoStmt
    /\ visited = <<>>
    /\ processed_files = 0
    /\ failed_files = 0
    /\ log = <<>>
    /\ table0 = table
    /\ calls = 0

\* one invocation of process_file, as the log keeps it
Invocation(file, prep, store, rowsBefore, rowsAfter) ==
    [file |-> file, res |-> prep.res, steps |-> prep.steps,
     stmt |-> prep.stmt, store |-> store,
     rowsBefore |-> rowsBefore, rowsAfter |-> rowsAfter]

\* the last logged invocation completed by the store's answer
Completed(inv, res, store, rowsAfter) ==
    [inv EXCEPT !.res = res, !.steps = Append(@, "execute"),
                !.store = store, !.rowsAfter = rowsAfter]

CanCall == pc \in {"idle", "done"} /\ calls < MaxCalls

StartCall(name, dir) ==
    /\ op' = name
    /\ dir_path' = dir
    /\ calls' = calls + 1
    /\ table0' = table
    /\ visited' = <<>>
    /\ processed_files' = 0
    /\ failed_files' = 0

(***************************************************************************)
(* process_file called by a caller of the pipeline.                        *)
(***************************************************************************)
\* the file cannot be read or parsed: the call returns the error
PfCallFails(file) ==
    LET prep == PfPrepare(file)
    IN  /\ CanCall
        /\ ~prep.res = Pending
        /\ StartCall("process_file", NoDir)
        /\ log' = <<Invocation(file, prep, "none", Len(table), Len(table))>>
        /\ result' = prep.res
        /\ pc' = "done"
        /\ UNCHANGED <<table, stmt>>
        /\ UNCHANGED notEtlVars

\* the statement is built and handed to the store
PfCallExecutes(file) ==
    LET prep == PfPrepare(file)
    IN  /\ CanCall
        /\ prep.res = Pending
        /\ StartCall("process_file", NoDir)
        /\ log' = <<Invocation(file, prep, "none", Len(table), Len(table))>>
        /\ stmt' = prep.stmt
        /\ result' = Pending
        /\ pc' = "pf_exec"
        /\ UNCHANGED table
        /\ UNCHANGED notEtlVars

PfExecOk ==
    /\ pc = "pf_exec"
    /\ table' = ExecuteOk(table, stmt)
    /\ log' = <<Completed(log[1], PfStoreOk, "ok", Len(table'))>>
    /\ result' = PfStoreOk
    /\ stmt' = NoStmt
    /\ pc' = "done"
    /\ UNCHANGED <<op, dir_path, visited, processed_files, failed_files, table0, calls>>
    /\ UNCHANGED notEtlVars

PfExecFail(e) ==
    /\ pc = "pf_exec"
    /\ table' = ExecuteFail(table, stmt)
    /\ log' = <<Completed(log[1], PfStoreErr(e), e, Len(table'))>>
    /\ result' = PfStoreErr(e)
    /\ stmt' = NoStmt
    /\ pc' = "done"
    /\ UNCHANGED <<op, dir_path, visited, processed_files, failed_files, table0, calls>>
    /\ UNCHANGED notEtlVars

(***************************************************************************)
(* process_directory.                                                      *)
(***************************************************************************)
\* fs::read_dir fails: the call returns DirectoryError
PdCallFails(dir) ==
    /\ CanCall
    /\ ~read_dir(dir).ok
    /\ StartCall("process_directory", dir)
    /\ log' = <<>>
    /\ result' = Err("DirectoryError", "dir_path: " \o read_dir(dir).err)
    /\ pc' = "done"
    /\ UNCHANGED <<table, stmt>>
    /\ UNCHANGED notEtlVars

\* fs::read_dir succeeds: the loop over the entries starts
PdCallLists(dir) ==
    /\ CanCall
    /\ read_dir(dir).ok
    /\ StartCall("process_directory", dir)
    /\ log' = <<>>
    /\ result' = Pending
    /\ pc' = "pd_loop"
    /\ UNCHANGED <<table, stmt>>
    /\ UNCHANGED notEtlVars

\* names the listing has yielded so far; a directory holds a name once
VisitedNames == {visited[i].path : i \in 1..Len(visited)}

\* the next entry taken while the previous statement still awaits the store
CanYield_WhileExecuting(file) ==
    /\ pc \in {"pd_loop", "pd_exec"}
    /\ Len(visited) < MaxEntries
    /\ file.path \notin VisitedNames

CanYield(file) ==
    /\ pc = "pd_loop"
    /\ Len(visited) < MaxEntries
    /\ file.path \notin VisitedNames

\* what the listing yields for an entry it cannot read: Err(e), no path
UnreadableEntry(e) == OnDisk(<<>>, e, <<>>)

\* the unreadable entry counted as a failure and the scan continued
PdEntryError_Continues(e) ==
    /\ pc = "pd_loop"
    /\ Len(visited) < MaxEntries
    /\ visited' = Append(visited, UnreadableEntry(e))
    /\ failed_files' = failed_files + 1
    /\ UNCHANGED <<table, pc, op, dir_path, result, stmt, processed_files,
                   log, table0, calls>>
    /\ UNCHANGED notEtlVars

\* the listing yields an entry that cannot be read
PdEntryError(e) ==
    /\ pc = "pd_loop"
    /\ Len(visited) < MaxEntries
    /\ visited' = Append(visited, UnreadableEntry(e))
    /\ result' = Err("DirectoryError", "Failed to read entry: " \o e)
    /\ pc' = "done"
    /\ UNCHANGED <<table, op, dir_path, stmt, processed_files, failed_files,
                   log, table0, calls>>
    /\ UNCHANGED notEtlVars

\* the listing yields an entry whose extension is not json
PdSkip(file) ==
    /\ CanYield(file)
    /\ ~IsJsonPath(file.path)
    /\ visited' = Append(visited, file)
    /\ UNCHANGED <<table, pc, op, dir_path, result, stmt, processed_files, failed_files,
                   log, table0, calls>>
    /\ UNCHANGED notEtlVars

\* the failure logged but not counted
PdFileFails_NotCounted(file) ==
    LET prep == PfPrepare(file)
    IN  /\ CanYield(file)
        /\ IsJsonPath(file.path)
        /\ ~prep.res = Pending
        /\ visited' = Append(visited, file)
        /\ log' = Append(log, Invocation(file, prep, "none",
                                          Len(table), Len(table)))
        /\ UNCHANGED <<table, pc, op, dir_path, result, stmt, processed_files,
                       failed_files, table0, calls>>
        /\ UNCHANGED notEtlVars

\* process_file on the entry fails before it reaches the store
PdFileFails(file) ==
    LET prep == PfPrepare(file)
    IN  /\ CanYield(file)
        /\ IsJsonPath(file.path)
        /\ ~prep.res = Pending
        /\ visited' = Append(visited, file)
        /\ log' = Append(log, Invocation(file, prep, "none",
                                          Len(table), Len(table)))
        /\ failed_files' = failed_files + 1
        /\ UNCHANGED <<table, pc, op, dir_path, result, stmt, processed_files,
                       table0, calls>>
        /\ UNCHANGED notEtlVars

\* process_file on the entry hands its statement to the store
PdFileExecutes(file) ==
    LET prep == PfPrepare(file)
    IN  /\ CanYield(file)
        /\ IsJsonPath(file.path)
        /\ prep.res = Pending
        /\ visited' = Append(visited, file)
        /\ log' = Append(log, Invocation(file, prep, "none",
                                          Len(table), Len(table)))
        /\ stmt' = prep.stmt
        /\ pc' = "pd_exec"
        /\ UNCHANGED <<table, op, dir_path, result, processed_files, failed_files,
                       table0, calls>>
        /\ UNCHANGED notEtlVars

\* Ok(_) => processed_files += 1
PdExecOk ==
    /\ pc = "pd_exec"
    /\ table' = ExecuteOk(table, stmt)
    /\ log' = [log EXCEPT ![Len(log)] =
                   Completed(@, PfStoreOk, "ok", Len(table'))]
    /\ processed_files' = processed_files + 1
    /\ stmt' = NoStmt
    /\ pc' = "pd_loop"
    /\ UNCHANGED <<op, dir_path, result, visited, failed_files, table0, calls>>
    /\ UNCHANGED notEtlVars

\* the refused statement executed again
PdExecFail_Retries(e) ==
    /\ pc = "pd_exec"
    /\ table' = ExecuteFail(table, stmt)
    /\ log' = [log EXCEPT ![Len(log)].steps = Append(@, "execute"),
                          ![Len(log)].store = e]
    /\ UNCHANGED <<pc, op, dir_path, result, stmt, visited, processed_files,
                   failed_files, table0, calls>>
    /\ UNCHANGED notEtlVars

\* Err(e) => failed_files += 1
PdExecFail(e) ==
    /\ pc = "pd_exec"
    /\ table' = ExecuteFail(table, stmt)
    /\ log' = [log EXCEPT ![Len(log)] =
                   Completed(@, PfStoreErr(e), e, Len(table'))]
    /\ failed_files' = failed_files + 1
    /\ stmt' = NoStmt
    /\ pc' = "pd_loop"
    /\ UNCHANGED <<op, dir_path, result, visited, processed_files, table0, calls>>
    /\ UNCHANGED notEtlVars

\* what process_directory returns when the listing is exhausted
PdReturn(processed, failed) == Ok

\* the listing is exhausted
PdFinish ==
    /\ pc = "pd_loop"
    /\ result' = PdReturn(processed_files, failed_files)
    /\ pc' = "done"
    /\ UNCHANGED <<table, op, dir_path, stmt, visited, processed_files, failed_files,
                   log, table0, calls>>
    /\ UNCHANGED notEtlVars

EtlNext ==
    \/ \E file \in Paths : PfCallFails(file)
    \/ \E file \in Paths : PfCallExecutes(file)
    \/ PfExecOk
    \/ \E e \in StoreErrors : PfExecFail(e)
    \/ \E dir \in Dirs : PdCallFails(dir)
    \/ \E dir \in Dirs : PdCallLists(dir)
    \/ \E e \in DirErrors : PdEntryError(e)
    \/ \E file \in Listable : PdSkip(file)
    \/ \E file \in Listable : PdFileFails(file)
    \/ \E file \in Listable : PdFileExecutes(file)
    \/ PdExecOk
    \/ \E e \in StoreErrors : PdExecFail(e)
    \/ PdFinish

(***************************************************************************)
(* The user repository: DbConnection over public.users.  Option<String> is *)
(* the empty sequence (None) or a sequence of one value (Some).            *)
(***************************************************************************)
None == <<>>

Some(v) == <<v>>

\* values Uuid::new_v4 can return
UserIds == {"u1", "u2"}

\* an id Uuid::new_v4 never returns: the id of no user
OtherIds == {"u0"}

\* what the callers pass to create_user and to update_user
NewUsernames == {"ann"}

NewEmails == {"a@x"}

UpdatedUsernames == {"bob"}

UpdatedEmails == {"a@x", "b@x"}

UserRow(id, username, email, created_at, updated_at) ==
    [id |-> id, username |-> username, email |-> email,
     created_at |-> created_at, updated_at |-> updated_at]

NoUser == UserRow("none", "", "", 0, 0)

\* what a call of the repository returns: Ok(User), Ok(Option<User>),
\* Ok(bool) or Err(sqlx::Error)
UserResult(ok, some, user, flag, err) ==
    [ok |-> ok, some |-> some, user |-> user, flag |-> flag, err |-> err]

SqlxError(e) == UserResult(FALSE, FALSE, NoUser, FALSE, e)

\* errors of the pool or the store on a statement
UserStoreErrors == {"PoolTimedOut"}

\* WHERE id = $n
Matching(rows, id) == {r \in rows : r.id = id}

\* INSERT INTO public.users (...) VALUES ($1, $2, $3, NOW(), NOW())
InsertUser(rows, id, username, email, t) ==
    rows \cup {UserRow(id, username, email, t, t)}

\* a NULL parameter written instead of the stored value
COALESCE_Overwrites(opt, stored) == IF opt = None THEN "" ELSE opt[1]

COALESCE(opt, stored) == IF opt = None THEN stored ELSE opt[1]

\* SET username = COALESCE($1, username), email = COALESCE($2, email),
\* updated_at = NOW()
SetRow(r, username, email, t) ==
    [r EXCEPT !.username = COALESCE(username, @),
              !.email = COALESCE(email, @),
              !.updated_at = t]

\* UPDATE public.users SET ... WHERE id = $3
UpdateRows(rows, id, username, email, t) ==
    {IF r.id = id THEN SetRow(r, username, email, t) ELSE r : r \in rows}

\* the row is kept and reported deleted
DeleteRows_KeepsRow(rows, id) == rows

\* DELETE FROM public.users WHERE id = $1
DeleteRows(rows, id) == {r \in rows : r.id # id}

\* fetch_one on RETURNING *
fetch_one(rows) ==
    UserResult(TRUE, TRUE, CHOOSE r \in rows : TRUE, FALSE, "none")

\* fetch_one used where no row may match: RowNotFound
fetch_optional_RowNotFound(rows) ==
    IF rows = {} THEN SqlxError("RowNotFound") ELSE fetch_one(rows)

\* fetch_optional: Ok(None) when no row matches
fetch_optional(rows) ==
    IF rows = {} THEN UserResult(TRUE, FALSE, NoUser, FALSE, "none")
    ELSE fetch_one(rows)

\* Ok(result.rows_affected() > 0)
rows_affected(before, after) ==
    UserResult(TRUE, FALSE, NoUser,
               Cardinality(before) - Cardinality(after) > 0, "none")

Sessions == 1..NumCallers

\* pc: idle, sent (the statement awaits the store)
NoSession ==
    [pc |-> "idle", op |-> "none", id |-> "none", username |-> None,
     email |-> None, stamp |-> 0]

\* a statement the store has answered: what was sent, the store's answer,
\* what the call returned, and the rows before and after it
Answered(q, store, res, before, after) ==
    [op |-> q.op, id |-> q.id, username |-> q.username, email |-> q.email,
     stamp |-> q.stamp, store |-> store, result |-> res,
     before |-> before, after |-> after]

UsersEmpty ==
    /\ users = {}
    /\ sessions = [c \in Sessions |-> NoSession]
    /\ now = 0
    /\ issued = {}
    /\ history = <<>>

(***************************************************************************)
(* Callers of process_file that share the pool: what each one holds.       *)
(***************************************************************************)
Callers == 1..NumCallers

NoFile == OnDisk(<<>>, "none", <<>>)

\* pc: idle, exec (the statement awaits the store), done
NoTask ==
    [pc |-> "idle", file |-> NoFile, stmt |-> NoStmt, res |-> Pending,
     store |-> "none", rowsBefore |-> 0, row |-> 0]

FlattenUnused ==
    /\ doc = JScalar("null")
    /\ flat = <<>>
    /\ fpc = "unused"

TasksIdle == tasks = [c \in Callers |-> NoTask]

\* The pipeline: no call of it applies flatten.
(***************************************************************************)
(* The GraphQL mutations on jobs, tasks and pipeline runs, the events they *)
(* send and the etl_events subscription.                                   *)
(***************************************************************************)
\* the statuses the callers of update_*_status pass in this model
GivenStatuses(kind) ==
    IF kind = "job" THEN {"Running", "Completed"} ELSE {"Failed"}

\* ids Uuid::new_v4 can hand out
EntityIds == {"e1", "e2"}

\* the name argument of a create mutation
EntityNames(kind) == IF kind = "job" THEN {"n1", "n2"} ELSE {"n1"}

\* output_data of update_task_status and metrics of
\* update_pipeline_run_status; update_job_status has no such argument
Extras(kind) == IF kind = "job" THEN {None} ELSE {Some("out")}

EntityRow(kind, id, name, status, extra, created_at, updated_at) ==
    [kind |-> kind, id |-> id, name |-> name, status |-> status,
     extra |-> extra, created_at |-> created_at, updated_at |-> updated_at]

\* INSERT INTO <kind> ... VALUES (id, name, status, now, now) RETURNING *:
\* one timestamp is bound to both created_at and updated_at
InsertEntity(kind, id, name, status, at) ==
    EntityRow(kind, id, name, status, None, at, at)

\* the status a create mutation binds
CreatedStatus_Running == "Running"

CreatedStatus == "Pending"

\* the rows of one table WHERE id = $n
MatchingEntities(rows, kind, id) ==
    {r \in rows : r.kind = kind /\ r.id = id}

\* UPDATE <kind> SET status = $1, [output_data | metrics = $2,]
\* updated_at = now WHERE id = $n
SetStatus(r, status, extra, at) ==
    [r EXCEPT !.status = status,
              !.extra = IF r.kind = "job" THEN r.extra ELSE extra,
              !.updated_at = at]

UpdateEntities_AnyRow(rows, kind, id, status, extra, at) ==
    {IF r.kind = kind THEN SetStatus(r, status, extra, at) ELSE r
        : r \in rows}

UpdateEntities(rows, kind, id, status, extra, at) ==
    {IF r.kind = kind /\ r.id = id THEN SetStatus(r, status, extra, at)
     ELSE r : r \in rows}

\* the event_type strings of the six mutations
EventType(kind, what) ==
    CASE kind = "job" /\ what = "create" -> "JobCreated"
      [] kind = "job" /\ what = "update" -> "JobStatusUpdated"
      [] kind = "task" /\ what = "create" -> "TaskCreated"
      [] kind = "task" /\ what = "update" -> "TaskStatusUpdated"
      [] kind = "pipeline_run" /\ what = "create" -> "PipelineRunCreated"
      [] kind = "pipeline_run" /\ what = "update"
            -> "PipelineRunStatusUpdated"

\* serde_json::to_string of the row a write returned: the data of an event
\* names the row's columns and values
ToJsonString(row) ==
    <<row.kind, row.id, row.name, row.status, row.extra,
      row.created_at, row.updated_at>>

\* ETLEvent built from the row a write returned
ETLEvent_NoStatus(what, row) ==
    [event_type |-> EventType(row.kind, what), entity_id |-> row.id,
     status |-> None, data |-> Some(ToJsonString(row))]

ETLEvent(what, row) ==
    [event_type |-> EventType(row.kind, what), entity_id |-> row.id,
     status |-> Some(row.status), data |-> Some(ToJsonString(row))]

\* errors a statement of a mutation can come back with
MutationErrors == {"PoolTimedOut"}

\* the store executed the statement
NoMutationError == "none"

\* what a mutation returns: Ok(entity), Ok(Option<entity>) or Err(error);
\* pending while it has not returned
MutationPending == [state |-> "pending", value |-> None, err |-> ""]

MutationOk(value) == [state |-> "ok", value |-> value, err |-> ""]

MutationErr(e) == [state |-> "err", value |-> None, err |-> e]

\* a mutation that is not running
NoRequest == [pc |-> "idle"]

\* broadcast::channel(Capacity): the values sent so far that some receiver
\* could still be waiting for, and how many were stored in all
EmptyChannel == [tail |-> 0, buf |-> <<>>]

\* the receivers of the channel
Subscribers == {"s1", "s2"}

\* a client that has not called etl_events
NoSubscriber == [pc |-> "none"]

EventsUnused ==
    /\ entities = {}
    /\ requests = [c \in Callers |-> NoRequest]
    /\ clock = 0
    /\ writes = <<>>
    /\ emitted = <<>>
    /\ channel = EmptyChannel
    /\ subscribers = [s \in Subscribers |-> NoSubscriber]

Init ==
    /\ EtlInit(InitTables)
    /\ FlattenUnused
    /\ TasksIdle
    /\ UsersEmpty
    /\ EventsUnused

Next == EtlNext

Spec == Init /\ [][Next]_vars

(***************************************************************************)
(* flatten applied to the JSON trees of at most MaxSize construction       *)
(* steps over the keys a, b, a_b.                                          *)
(***************************************************************************)
FlattenKeys == {"a", "b", "a_b"}

FlattenLeaves ==
    { JScalar("1"),
      JArray(<<JScalar("1"), JScalar("2")>>),
      JArray(<<JObject(<< <<"b", JScalar("2")>> >>)>>) }

\* number of nodes of a tree
RECURSIVE Nodes(_)

Nodes(tree) ==
    IF tree.t # "object" THEN 1
    ELSE LET n == Len(tree.items)
             S[i \in 0..n] ==
                 IF i = 0 THEN 1 ELSE S[i - 1] + Nodes(tree.items[i][2])
         IN  S[n]

\* a member is added to (or replaced in) the object at the top
Grow(k, v) ==
    /\ fpc = "building"
    /\ doc.t = "object"
    /\ Nodes(doc) < MaxSize
    /\ doc' = JObject(MapInsert(doc.items, k, v))
    /\ UNCHANGED <<flat, fpc>>
    /\ UNCHANGED notFlattenVars

\* the tree becomes the member k of a new object
Wrap(k) ==
    /\ fpc = "building"
    /\ Nodes(doc) < MaxSize
    /\ doc' = JObject(<< <<k, doc>> >>)
    /\ UNCHANGED <<flat, fpc>>
    /\ UNCHANGED notFlattenVars

\* flatten(value, "")
Flatten ==
    /\ fpc = "building"
    /\ flat' = flatten(doc, "")
    /\ fpc' = "flattened"
    /\ UNCHANGED doc
    /\ UNCHANGED notFlattenVars

InitFlatten ==
    /\ EtlInit({<<>>})
    /\ doc \in FlattenLeaves \cup {JObject(<<>>)}
    /\ flat = <<>>
    /\ fpc = "building"
    /\ TasksIdle
    /\ UsersEmpty
    /\ EventsUnused

NextFlatten ==
    \/ \E k \in FlattenKeys, v \in FlattenLeaves \cup {JObject(<<>>)} : Grow(k, v)
    \/ \E k \in FlattenKeys : Wrap(k)
    \/ Flatten

SpecFlatten == InitFlatten /\ [][NextFlatten]_vars

(***************************************************************************)
(* process_file called by several callers on one pool.  Each call keeps    *)
(* its content, document and statement in its own locals; the store        *)
(* executes one statement at a time, in any order.                         *)
(***************************************************************************)
\* one statement buffer used by all calls: the oldest caller's statement
StmtToExecute_Shared(c) ==
    tasks[CHOOSE d \in Callers :
              /\ tasks[d].pc = "exec"
              /\ \A e \in Callers : tasks[e].pc = "exec" => d <= e].stmt

\* the query a call hands to the pool is the one it built
StmtToExecute(c) == tasks[c].stmt

TaskCallFails(c, file) ==
    LET prep == PfPrepare(file)
    IN  /\ tasks[c].pc = "idle"
        /\ ~prep.res = Pending
        /\ tasks' = [tasks EXCEPT ![c] =
                         [NoTask EXCEPT !.pc = "done", !.file = file,
                                        !.res = prep.res,
                                        !.rowsBefore = Len(table)]]
        /\ UNCHANGED table
        /\ UNCHANGED notTaskVars

TaskCallExecutes(c, file) ==
    LET prep == PfPrepare(file)
    IN  /\ tasks[c].pc = "idle"
        /\ prep.res = Pending
        /\ tasks' = [tasks EXCEPT ![c] =
                         [NoTask EXCEPT !.pc = "exec", !.file = file,
                                        !.stmt = prep.stmt,
                                        !.rowsBefore = Len(table)]]
        /\ UNCHANGED table
        /\ UNCHANGED notTaskVars

TaskExecOk(c) ==
    /\ tasks[c].pc = "exec"
    /\ table' = ExecuteOk(table, StmtToExecute(c))
    /\ tasks' = [tasks EXCEPT ![c].pc = "done", ![c].res = PfStoreOk,
                              ![c].store = "ok", ![c].row = Len(table')]
    /\ UNCHANGED notTaskVars

TaskExecFail(c, e) ==
    /\ tasks[c].pc = "exec"
    /\ table' = ExecuteFail(table, StmtToExecute(c))
    /\ tasks' = [tasks EXCEPT ![c].pc = "done", ![c].res = PfStoreErr(e),
                              ![c].store = e]
    /\ UNCHANGED notTaskVars

InitTasks ==
    /\ EtlInit(InitTables)
    /\ FlattenUnused
    /\ TasksIdle
    /\ UsersEmpty
    /\ EventsUnused

NextTasks ==
    \/ \E c \in Callers, file \in Paths : TaskCallFails(c, file)
    \/ \E c \in Callers, file \in Paths : TaskCallExecutes(c, file)
    \/ \E c \in Callers : TaskExecOk(c)
    \/ \E c \in Callers, e \in StoreErrors : TaskExecFail(c, e)

SpecTasks == InitTasks /\ [][NextTasks]_vars

(***************************************************************************)
(* The user repository called by several callers on one pool.  A call      *)
(* sends one statement; NOW() in it is the store's clock when the          *)
(* statement starts, and the clock has advanced between any two starts.    *)
(* The store executes the statements one at a time, in any order.          *)
(***************************************************************************)
CanSend(c) ==
    /\ sessions[c].pc = "idle"
    /\ now < MaxStatements

\* ids create_user has returned to a caller
CreatedIds ==
    {history[i].id : i \in {j \in 1..Len(history) :
                                /\ history[j].op = "create_user"
                                /\ history[j].store = "ok"}}

\* ids a caller can pass: one a create_user returned, or one of no user
KnownIds == CreatedIds \cup OtherIds

Send(c, name, id, username, email) ==
    /\ now' = now + 1
    /\ sessions' = [sessions EXCEPT ![c] =
                        [NoSession EXCEPT !.pc = "sent", !.op = name, !.id = id,
                                          !.username = username,
                                          !.email = email, !.stamp = now']]
    /\ UNCHANGED <<users, history>>

\* the store has executed the statement of c, leaving the rows rowsAfter,
\* and the call has returned res
Executed(c, res, rowsAfter) ==
    /\ users' = rowsAfter
    /\ history' = Append(history,
                         Answered(sessions[c], "ok", res, users, rowsAfter))
    /\ sessions' = [sessions EXCEPT ![c] = NoSession]
    /\ UNCHANGED <<now, issued>>

\* .bind(UuidScalar(Uuid::new_v4())).bind(user.username).bind(user.email)
create_user(c, id, username, email) ==
    /\ CanSend(c)
    /\ id \notin issued
    /\ issued' = issued \cup {id}
    /\ Send(c, "create_user", id, Some(username), Some(email))
    /\ UNCHANGED notUserVars

create_user_fetch_one(c) ==
    LET q == sessions[c]
        rowsAfter == InsertUser(users, q.id, q.username[1], q.email[1], q.stamp)
    IN  /\ q.pc = "sent"
        /\ q.op = "create_user"
        /\ Executed(c, fetch_one(Matching(rowsAfter, q.id)), rowsAfter)
        /\ UNCHANGED notUserVars

get_user(c, id) ==
    /\ CanSend(c)
    /\ id \in KnownIds
    /\ Send(c, "get_user", id, None, None)
    /\ UNCHANGED issued
    /\ UNCHANGED notUserVars

get_user_fetch_optional(c) ==
    LET q == sessions[c]
    IN  /\ q.pc = "sent"
        /\ q.op = "get_user"
        /\ Executed(c, fetch_optional(Matching(users, q.id)), users)
        /\ UNCHANGED notUserVars

update_user(c, id, username, email) ==
    /\ CanSend(c)
    /\ id \in KnownIds
    /\ Send(c, "update_user", id, username, email)
    /\ UNCHANGED issued
    /\ UNCHANGED notUserVars

update_user_fetch_optional(c) ==
    LET q == sessions[c]
        rowsAfter == UpdateRows(users, q.id, q.username, q.email, q.stamp)
    IN  /\ q.pc = "sent"
        /\ q.op = "update_user"
        /\ Executed(c, fetch_optional(Matching(rowsAfter, q.id)), rowsAfter)
        /\ UNCHANGED notUserVars

delete_user(c, id) ==
    /\ CanSend(c)
    /\ id \in KnownIds
    /\ Send(c, "delete_user", id, None, None)
    /\ UNCHANGED issued
    /\ UNCHANGED notUserVars

delete_user_execute(c) ==
    LET q == sessions[c]
        rowsAfter == DeleteRows(users, q.id)
    IN  /\ q.pc = "sent"
        /\ q.op = "delete_user"
        /\ Executed(c, rows_affected(users, rowsAfter), rowsAfter)
        /\ UNCHANGED notUserVars

\* .await? : the pool or the store fails the statement
statement_fails(c, e) ==
    /\ sessions[c].pc = "sent"
    /\ history' = Append(history,
                         Answered(sessions[c], e, SqlxError(e), users, users))
    /\ sessions' = [sessions EXCEPT ![c] = NoSession]
    /\ UNCHANGED <<users, now, issued>>
    /\ UNCHANGED notUserVars

\* the repository over an empty table, or over the table one create_user
\* call has left
AfterOneCreate ==
    LET q    == [NoSession EXCEPT !.op = "create_user", !.id = "u1",
                                  !.username = Some("ann"),
                                  !.email = Some("a@x")]
        rows == InsertUser({}, "u1", "ann", "a@x", 0)
    IN  /\ users = rows
        /\ sessions = [c \in Sessions |-> NoSession]
        /\ now = 0
        /\ issued = {"u1"}
        /\ history = <<Answered(q, "ok", fetch_one(rows), {}, rows)>>

InitUsers ==
    /\ EtlInit({<<>>})
    /\ FlattenUnused
    /\ TasksIdle
    /\ UsersEmpty \/ AfterOneCreate
    /\ EventsUnused

Optional(S) == {None} \cup {Some(v) : v \in S}

NextUsers ==
    \/ \E c \in Sessions, id \in UserIds,
          username \in NewUsernames, email \in NewEmails :
           create_user(c, id, username, email)
    \/ \E c \in Sessions : create_user_fetch_one(c)
    \/ \E c \in Sessions, id \in UserIds \cup OtherIds : get_user(c, id)
    \/ \E c \in Sessions : get_user_fetch_optional(c)
    \/ \E c \in Sessions, id \in UserIds \cup OtherIds,
          username \in Optional(UpdatedUsernames),
          email \in Optional(UpdatedEmails) :
           update_user(c, id, username, email)
    \/ \E c \in Sessions : update_user_fetch_optional(c)
    \/ \E c \in Sessions, id \in UserIds \cup OtherIds : delete_user(c, id)
    \/ \E c \in Sessions : delete_user_execute(c)
    \/ \E c \in Sessions, e \in UserStoreErrors : statement_fails(c, e)

SpecUsers == InitUsers /\ [][NextUsers]_vars

(***************************************************************************)
(* The mutations, the event channel and its subscribers.  A mutation binds *)
(* its statement, awaits the store, then sends its event and returns; the  *)
(* store executes one statement at a time, the callers interleave between  *)
(* their steps.                                                            *)
(***************************************************************************)
\* no statement touches two of the three tables, so a behaviour of this
\* model works on one of them; the callers are interchangeable, so the
\* lowest idle one makes the next call
CanMutate(c, kind) ==
    /\ requests[c] = NoRequest
    /\ \A d \in Callers : d < c => requests[d] # NoRequest
    /\ clock < MaxMutations
    /\ \A i \in 1..Len(writes) : writes[i].kind = kind
    /\ \A d \in Callers :
            requests[d] # NoRequest /\ requests[d].pc = "sent"
                => requests[d].kind = kind

\* ids already handed out by Uuid::new_v4
MintedIds ==
    {r.id : r \in entities}
        \cup {requests[c].id : c \in {d \in Callers :
                                        /\ requests[d] # NoRequest
                                        /\ requests[d].pc = "sent"
                                        /\ requests[d].what = "create"}}

\* Uuid::new_v4: an id no row and no statement carries yet; ids are only
\* compared for equality, so which fresh one it is makes no difference
new_v4 == CHOOSE id \in EntityIds \ MintedIds : TRUE

\* ids a caller of update_*_status can pass: those of the table's rows and
\* one no row has
KnownEntityIds(kind) ==
    {r.id : r \in {e \in entities : e.kind = kind}} \cup {"e0"}

\* the statement of a mutation, bound and handed to the pool
Bind(c, what, kind, id, name, status, extra) ==
    /\ requests' = [requests EXCEPT ![c] =
            [pc |-> "sent", what |-> what, kind |-> kind, id |-> id,
             name |-> name, status |-> status, extra |-> extra,
             at |-> clock]]
    /\ clock' = clock + 1
    /\ UNCHANGED <<entities, writes, emitted, channel, subscribers>>
    /\ UNCHANGED notEventVars

create_job(c, name) ==
    /\ CanMutate(c, "job")
    /\ EntityIds \ MintedIds # {}
    /\ Bind(c, "create", "job", new_v4, name, CreatedStatus, None)

create_task(c, name) ==
    /\ CanMutate(c, "task")
    /\ EntityIds \ MintedIds # {}
    /\ Bind(c, "create", "task", new_v4, name, CreatedStatus, None)

create_pipeline_run(c, name) ==
    /\ CanMutate(c, "pipeline_run")
    /\ EntityIds \ MintedIds # {}
    /\ Bind(c, "create", "pipeline_run", new_v4, name, CreatedStatus, None)

update_job_status(c, id, status) ==
    /\ CanMutate(c, "job")
    /\ Bind(c, "update", "job", id, "", status, None)

update_task_status(c, id, status, output_data) ==
    /\ CanMutate(c, "task")
    /\ Bind(c, "update", "task", id, "", status, output_data)

update_pipeline_run_status(c, id, status, metrics) ==
    /\ CanMutate(c, "pipeline_run")
    /\ Bind(c, "update", "pipeline_run", id, "", status, metrics)

\* what the store records of a statement it executed; until is the clock
\* when the mutation returned
Written(c, store, row, after) ==
    [what |-> requests[c].what, kind |-> requests[c].kind,
     id |-> requests[c].id, name |-> requests[c].name,
     given |-> requests[c].status, extra |-> requests[c].extra,
     at |-> requests[c].at, store |-> store, row |-> row,
     before |-> entities, after |-> after,
     result |-> MutationPending, sends |-> 0, until |-> clock]

\* INSERT ... RETURNING * with fetch_one: the row is stored and handed back
create_fetch_one(c) ==
    /\ requests[c] # NoRequest
    /\ requests[c].pc = "sent"
    /\ requests[c].what = "create"
    /\ LET q == requests[c]
           row == InsertEntity(q.kind, q.id, q.name, q.status, q.at)
       IN  /\ entities' = entities \cup {row}
           /\ writes' = Append(writes,
                    Written(c, NoMutationError, Some(row), entities \cup {row}))
           /\ requests' = [requests EXCEPT ![c] =
                    [pc |-> "written", what |-> q.what, row |-> row,
                     write |-> Len(writes) + 1]]
    /\ UNCHANGED <<clock, emitted, channel, subscribers>>
    /\ UNCHANGED notEventVars

\* UPDATE ... RETURNING * with fetch_optional, a row matched
update_fetch_optional_Some(c) ==
    /\ requests[c] # NoRequest
    /\ requests[c].pc = "sent"
    /\ requests[c].what = "update"
    /\ MatchingEntities(entities, requests[c].kind, requests[c].id) # {}
    /\ LET q == requests[c]
           after == UpdateEntities(entities, q.kind, q.id, q.status,
                                   q.extra, q.at)
           row == CHOOSE r \in MatchingEntities(after, q.kind, q.id) : TRUE
       IN  /\ entities' = after
           /\ writes' = Append(writes, Written(c, NoMutationError, Some(row), after))
           /\ requests' = [requests EXCEPT ![c] =
                    [pc |-> "written", what |-> q.what, row |-> row,
                     write |-> Len(writes) + 1]]
    /\ UNCHANGED <<clock, emitted, channel, subscribers>>
    /\ UNCHANGED notEventVars

\* UPDATE ... with fetch_optional, no row matched: the mutation skips the
\* send and returns Ok(None)
update_fetch_optional_None(c) ==
    /\ requests[c] # NoRequest
    /\ requests[c].pc = "sent"
    /\ requests[c].what = "update"
    /\ MatchingEntities(entities, requests[c].kind, requests[c].id) = {}
    /\ LET q == requests[c]
           after == UpdateEntities(entities, q.kind, q.id, q.status,
                                   q.extra, q.at)
       IN  /\ entities' = after
           /\ writes' = Append(writes,
                    [Written(c, NoMutationError, None, after)
                        EXCEPT !.result = MutationOk(None)])
    /\ requests' = [requests EXCEPT ![c] = NoRequest]
    /\ UNCHANGED <<clock, emitted, channel, subscribers>>
    /\ UNCHANGED notEventVars

\* the statement comes back with an error: .await? returns it
mutation_statement_fails(c, e) ==
    /\ requests[c] # NoRequest
    /\ requests[c].pc = "sent"
    /\ writes' = Append(writes,
            [Written(c, e, None, entities)
                EXCEPT !.result = MutationErr(e)])
    /\ requests' = [requests EXCEPT ![c] = NoRequest]
    /\ UNCHANGED <<entities, clock, emitted, channel, subscribers>>
    /\ UNCHANGED notEventVars

\* the receivers the channel has
Receivers == {s \in Subscribers : subscribers[s].pc = "streaming"}

\* Sender::send: with no receiver the value is handed back in an error and
\* nothing is stored; otherwise it takes the next position, and the channel
\* keeps the last Capacity values
send(ch, value) ==
    IF Receivers = {}
    THEN ch
    ELSE [tail |-> ch.tail + 1,
          buf |-> IF Len(ch.buf) < Capacity
                  THEN Append(ch.buf, value)
                  ELSE Append(Tail(ch.buf), value)]

\* Ok(number of receivers) or Err(SendError(value))
send_result ==
    [ok |-> Receivers # {}, receivers |-> Cardinality(Receivers)]

\* what the mutation returns after the send: let _ = drops the send's result
AfterSend_Propagates(row, sent) ==
    IF sent.ok THEN MutationOk(row) ELSE MutationErr("SendError")

AfterSend(row, sent) == MutationOk(row)

\* the row came back: the mutation builds the event, sends it and returns
send_event(c) ==
    /\ requests[c] # NoRequest
    /\ requests[c].pc = "written"
    /\ LET q == requests[c]
           w == writes[q.write]
           event == ETLEvent(q.what, q.row)
           slot == [event |-> event, seq |-> Len(emitted) + 1]
       IN  /\ emitted' = Append(emitted,
                    [event |-> event, write |-> q.write,
                     sent |-> send_result])
           /\ channel' = send(channel, slot)
           /\ writes' = [writes EXCEPT ![q.write] =
                    [@ EXCEPT !.result = AfterSend(w.row, send_result),
                              !.sends = @ + 1,
                              !.until = clock]]
    /\ requests' = [requests EXCEPT ![c] = NoRequest]
    /\ UNCHANGED <<entities, clock, subscribers>>
    /\ UNCHANGED notEventVars

\* Subscription::etl_events: event_sender.subscribe() starts at the tail; the
\* clients are interchangeable, so s1 is the first to subscribe
etl_events(s) ==
    /\ subscribers[s] = NoSubscriber
    /\ s = "s2" => subscribers["s1"] # NoSubscriber
    /\ subscribers' = [subscribers EXCEPT ![s] =
            [pc |-> "streaming", next |-> channel.tail,
             since |-> Len(emitted), delivered |-> <<>>]]
    /\ UNCHANGED <<entities, requests, clock, writes, emitted, channel>>
    /\ UNCHANGED notEventVars

\* the position of the oldest value the channel still holds
Oldest(ch) == ch.tail - Len(ch.buf)

\* the receiver's next value was overwritten
Lagged(ch, sub) == sub.next < Oldest(ch)

\* receiver.recv() is Ok(event): the stream yields it
recv_Ok(s) ==
    /\ subscribers[s].pc = "streaming"
    /\ ~ Lagged(channel, subscribers[s])
    /\ subscribers[s].next < channel.tail
    /\ LET sub == subscribers[s]
           slot == channel.buf[sub.next - Oldest(channel) + 1]
       IN  subscribers' = [subscribers EXCEPT ![s] =
                [sub EXCEPT !.next = @ + 1,
                            !.delivered = Append(@, slot)]]
    /\ UNCHANGED <<entities, requests, clock, writes, emitted, channel>>
    /\ UNCHANGED notEventVars

\* receiver.recv() is Err(Lagged): while let Ok(..) ends the stream
recv_Lagged_SkipsAhead(s) ==
    /\ subscribers[s].pc = "streaming"
    /\ Lagged(channel, subscribers[s])
    /\ subscribers' = [subscribers EXCEPT ![s] =
            [@ EXCEPT !.next = Oldest(channel)]]
    /\ UNCHANGED <<entities, requests, clock, writes, emitted, channel>>
    /\ UNCHANGED notEventVars

recv_Lagged(s) ==
    /\ subscribers[s].pc = "streaming"
    /\ Lagged(channel, subscribers[s])
    /\ subscribers' = [subscribers EXCEPT ![s] = [@ EXCEPT !.pc = "ended"]]
    /\ UNCHANGED <<entities, requests, clock, writes, emitted, channel>>
    /\ UNCHANGED notEventVars

\* one job created before any client subscribed and before the mutations
\* this model counts
AfterOneJob ==
    LET row == InsertEntity("job", "e1", "n1", CreatedStatus, -1)
        event == ETLEvent("create", row)
    IN  /\ entities = {row}
        /\ requests = [c \in Callers |-> NoRequest]
        /\ clock = 0
        /\ writes = << [what |-> "create", kind |-> "job",
                        id |-> "e1", name |-> "n1", given |-> CreatedStatus,
                        extra |-> None, at |-> -1, store |-> NoMutationError,
                        row |-> Some(row), before |-> {}, after |-> {row},
                        result |-> MutationOk(Some(row)), sends |-> 1,
                        until |-> 0] >>
        /\ emitted = << [event |-> event, write |-> 1,
                         sent |-> [ok |-> FALSE, receivers |-> 0]] >>
        /\ channel = EmptyChannel
        /\ subscribers = [s \in Subscribers |-> NoSubscriber]

InitEvents ==
    /\ EtlInit({<<>>})
    /\ FlattenUnused
    /\ TasksIdle
    /\ UsersEmpty
    /\ EventsUnused \/ AfterOneJob

NextEvents ==
    \/ \E c \in Callers, name \in EntityNames("job") : create_job(c, name)
    \/ \E c \in Callers, name \in EntityNames("task") : create_task(c, name)
    \/ \E c \in Callers, name \in EntityNames("pipeline_run") :
            create_pipeline_run(c, name)
    \/ \E c \in Callers, id \in KnownEntityIds("job"),
          status \in GivenStatuses("job") :
            update_job_status(c, id, status)
    \/ \E c \in Callers, id \in KnownEntityIds("task"),
          status \in GivenStatuses("task"), output_data \in Extras("task") :
            update_task_status(c, id, status, output_data)
    \/ \E c \in Callers, id \in KnownEntityIds("pipeline_run"),
          status \in GivenStatuses("pipeline_run"),
          metrics \in Extras("pipeline_run") :
            update_pipeline_run_status(c, id, status, metrics)
    \/ \E c \in Callers : create_fetch_one(c)
    \/ \E c \in Callers : update_fetch_optional_Some(c)
    \/ \E c \in Callers : update_fetch_optional_None(c)
    \/ \E c \in Callers, e \in MutationErrors : mutation_statement_fails(c, e)
    \/ \E c \in Callers : send_event(c)
    \/ \E s \in Subscribers : etl_events(s)
    \/ \E s \in Subscribers : recv_Ok(s)
    \/ \E s \in Subscribers : recv_Lagged(s)

SpecEvents == InitEvents /\ [][NextEvents]_vars

(***************************************************************************)
(* Properties of process_file and process_directory.                       *)
(***************************************************************************)
Invocations == 1..Len(log)

Returned(i) == log[i].res # Pending

Failed(i) == Returned(i) /\ ~log[i].res.ok

InDirectory == op = "process_directory"

\* the paths process_file was invoked with, in order
InvokedPaths == [i \in Invocations |-> log[i].file.path]

\* C1: process_directory aborts on the first file failure: once a
\* process_file call of the scan has failed, the scan has stopped, that
\* file's error is what the caller gets, and no later entry is visited or
\* processed.
C1_AbortsOnFirstFailure ==
    InDirectory =>
        \A i \in Invocations :
            Failed(i) =>
                /\ pc = "done"
                /\ result = log[i].res
                /\ Len(log) = i
                /\ visited[Len(visited)].path = log[i].file.path

\* C2: process_directory returns Ok only if every process_file call of the
\* scan succeeded; if any of them returned an error, the caller gets an
\* error.
C2_NoErrorSwallowed ==
    (InDirectory /\ pc = "done") =>
        /\ result.ok => \A i \in Invocations : log[i].res.ok
        /\ (\E i \in Invocations : Failed(i)) => ~result.ok

\* rows of the table that were not there when the call started
NewRows == SubSeq(table, Len(table0) + 1, Len(table))

\* C3: every process_file call adds exactly one row when it returns Ok
\* and none when it returns an error; while the statement awaits the store
\* nothing is inserted, and every row has both of its columns.
C3_OneRowPerSuccess ==
    /\ \A i \in Invocations :
           /\ Returned(i) =>
                  log[i].rowsAfter =
                      log[i].rowsBefore + (IF log[i].res.ok THEN 1 ELSE 0)
           /\ ~Returned(i) =>
                  /\ i = Len(log)
                  /\ Len(table) = log[i].rowsBefore
           /\ i > 1 => log[i].rowsBefore = log[i - 1].rowsAfter
    /\ op # "none" =>
           /\ SubSeq(table, 1, Len(table0)) = table0
           /\ Len(NewRows) = Cardinality({i \in Invocations : log[i].res.ok})
    /\ \A r \in 1..Len(table) : DOMAIN table[r] = {"file_name", "data"}

C3_Witness ==
    /\ \E i \in Invocations : log[i].res.ok
    /\ \E i \in Invocations : Failed(i) /\ log[i].res.err.kind = "DatabaseError"
    /\ pc = "done"

Readable(file) == file.status = "ok"

\* C4: process_file on readable content that is not valid JSON returns
\* JsonParseError, builds and executes no statement, and leaves the table
\* as it was.
C4_MalformedJson ==
    \A i \in Invocations :
        (Readable(log[i].file) /\ ~from_str(log[i].file.text).ok) =>
            /\ log[i].res.err.kind = "JsonParseError"
            /\ log[i].steps = <<"read", "parse">>
            /\ log[i].stmt = NoStmt
            /\ log[i].store = "none"
            /\ log[i].rowsAfter = log[i].rowsBefore
            /\ op = "process_file" =>
                   pc = "done" /\ result = log[i].res /\ table = table0

C4_Witness ==
    /\ op = "process_file"
    /\ pc = "done"
    /\ log[1].file.text = TextMalformed
    /\ result.err.kind = "JsonParseError"
    /\ table # <<>>

\* C5: process_file on a path that cannot be read returns FileReadError
\* with the file system's error, never reaches the parse, and executes no
\* statement.
C5_UnreadableFile ==
    \A i \in Invocations :
        ~Readable(log[i].file) =>
            /\ log[i].res = Err("FileReadError", log[i].file.status)
            /\ log[i].steps = <<"read">>
            /\ log[i].stmt = NoStmt
            /\ log[i].store = "none"
            /\ log[i].rowsAfter = log[i].rowsBefore
            /\ op = "process_file" =>
                   pc = "done" /\ result = log[i].res /\ table = table0

C5_Witness ==
    /\ op = "process_file"
    /\ pc = "done"
    /\ log[1].file.status = "NotFound"
    /\ result.err.kind = "FileReadError"

\* C6: when the file is readable and valid JSON and the store refuses the
\* statement, process_file returns DatabaseError wrapping the store's error.
C6_DatabaseError ==
    \A i \in Invocations :
        log[i].store \in StoreErrors =>
            /\ Readable(log[i].file)
            /\ from_str(log[i].file.text).ok
            /\ log[i].res = Err("DatabaseError", log[i].store)
            /\ op = "process_file" => pc = "done" /\ result = log[i].res

C6_Witness ==
    /\ op = "process_file"
    /\ pc = "done"
    /\ log[1].store = "constraint violation"
    /\ result = Err("DatabaseError", "constraint violation")

DotJson == <<".", "j", "s", "o", "n">>

\* the name ends in the suffix ".json"
EndsInDotJson(name) ==
    Len(name) >= Len(DotJson)
    /\ SubSeq(name, Len(name) - Len(DotJson) + 1, Len(name)) = DotJson

VisitedPaths(keep(_)) ==
    LET kept == SelectSeq(visited, LAMBDA f : keep(f.path))
    IN  [i \in 1..Len(kept) |-> kept[i].path]

\* C7 as claimed: process_file is invoked for exactly the visited entries
\* whose name ends in ".json".
C7_SuffixDotJson ==
    InDirectory => InvokedPaths = VisitedPaths(EndsInDotJson)

StemDotJson(name) == EndsInDotJson(name) /\ Len(name) > Len(DotJson)

\* C7 as amended: process_file is invoked for exactly the visited entries
\* whose name is a non-empty stem followed by ".json" (the path's extension
\* is json), in listing order; b.txt, c.JSON and .json are never processed.
C7_ExtensionJson ==
    InDirectory => InvokedPaths = VisitedPaths(StemDotJson)

C7_Witness ==
    /\ InDirectory
    /\ pc = "done"
    /\ Len(visited) = 2
    /\ \E i \in 1..2 : visited[i].path = <<"c", ".", "J", "S", "O", "N">>
    /\ Len(log) = 1
    /\ log[1].res.ok

\* C8: when the directory cannot be listed, process_directory returns
\* DirectoryError, and no entry is visited, no process_file call is made
\* and no row is inserted.
C8_DirectoryUnlistable ==
    (InDirectory /\ dir_path.status \in DirErrors) =>
            /\ pc = "done"
            /\ result = Err("DirectoryError", "dir_path: " \o dir_path.status)
            /\ visited = <<>>
            /\ log = <<>>
            /\ stmt = NoStmt
            /\ table = table0

C8_Witness ==
    /\ InDirectory
    /\ dir_path.status = "NotFound"
    /\ pc = "done"
    /\ result = Err("DirectoryError", "dir_path: NotFound")
    /\ table # <<>>

\* the invocation got as far as binding the statement's values
Bound(i) == \E j \in 1..Len(log[i].steps) : log[i].steps[j] = "bind"

\* the document parsed from the file of an invocation
ParsedDoc(i) == from_str(log[i].file.text).val

Columns(st) == {st.columns[j] : j \in 1..Len(st.columns)}

\* C9 as claimed: process_file flattens the parsed document before
\* inserting: the statement's columns are the compound keys of
\* flatten(value, "") and each placeholder holds the flattened value.
C9_ProcessFileFlattens ==
    \A i \in Invocations :
        Bound(i) =>
            LET flatrec == flatten(ParsedDoc(i), "")
                st      == log[i].stmt
            IN  /\ Columns(st) = DOMAIN flatrec
                /\ \A j \in 1..Len(st.columns) :
                       st.values[j].json = flatrec[st.columns[j]]

FlatNestedExample == ("a_b" :> JScalar("1")) @@ ("a_c_d" :> JScalar("2"))

\* C9 as amended: flatten keys {"a": {"b": 1, "c": {"d": 2}}} as a_b and
\* a_c_d, but process_file does not apply it: the statement has the two
\* columns file_name and data, data is bound to the parsed document as
\* parsed, nested objects included, and that is what the inserted row holds.
C9_StoresDocumentWhole ==
    /\ flatten(from_str(TextNested).val, "") = FlatNestedExample
    /\ \A i \in Invocations :
           Bound(i) =>
               /\ log[i].stmt.table = "json_data"
               /\ log[i].stmt.columns = <<"file_name", "data">>
               /\ log[i].stmt.values[2] = BindJson(ParsedDoc(i))
               /\ log[i].res.ok =>
                      table[log[i].rowsAfter].data = BindJson(ParsedDoc(i))

C9_Witness ==
    /\ op = "process_file"
    /\ pc = "done"
    /\ result.ok
    /\ log[1].file.text = TextNested
    /\ table[Len(table)].data.json.items[1][2].t = "object"

\* the value the statement binds to the placeholder of a column
BoundTo(st, col) ==
    st.values[CHOOSE j \in 1..Len(st.columns) : st.columns[j] = col]

\* C15 as claimed: the statement has one column and one placeholder per
\* flattened key of the document, and the value bound to placeholder j is
\* the flattened value of column j.
C15_ColumnPerFlattenedKey ==
    \A i \in Invocations :
        Bound(i) =>
            LET flatrec == flatten(ParsedDoc(i), "")
                st      == log[i].stmt
            IN  /\ Len(st.columns) = Cardinality(DOMAIN flatrec)
                /\ Len(st.values) = Len(st.columns)
                /\ \A j \in 1..Len(st.columns) :
                       /\ st.columns[j] \in DOMAIN flatrec
                       /\ st.values[j] = BindJson(flatrec[st.columns[j]])

\* C15 as amended: the statement targets the fixed table json_data and has
\* the two columns file_name, data and two placeholders, whatever the
\* document; placeholder 1 is bound to the file's name and placeholder 2 to
\* the parsed document, and the row the store inserts holds under every
\* column the value bound at that column's position.
C15_ColumnsAlignValues ==
    \A i \in Invocations :
        Bound(i) =>
            LET st == log[i].stmt
            IN  /\ st.table = "json_data"
                /\ st.columns = <<"file_name", "data">>
                /\ Len(st.values) = Len(st.columns)
                /\ BoundTo(st, "file_name") = BindText(FileNameOf(log[i].file.path))
                /\ BoundTo(st, "data") = BindJson(ParsedDoc(i))
                /\ log[i].res.ok =>
                       \A j \in 1..Len(st.columns) :
                           table[log[i].rowsAfter][st.columns[j]] = st.values[j]

\* a flat document of two keys has been inserted: its keys are not columns
C15_Witness ==
    /\ op = "process_file"
    /\ pc = "done"
    /\ result.ok
    /\ log[1].file.text = TextFlat
    /\ DOMAIN flatten(ParsedDoc(1), "") = {"a", "b"}
    /\ table[Len(table)].file_name.kind = "text"
    /\ table[Len(table)].data = BindJson(ParsedDoc(1))

\* invocations whose statement has not been answered by the store
InFlight == {i \in Invocations : ~Returned(i)}

\* C16: within one process_directory call the files are processed one
\* after the other: when a file is read every earlier file's process_file
\* has returned, at most one statement of the call awaits the store, it is
\* the statement of the entry visited last, and each file sees the table as
\* the file before it left it.
C16_StrictlySequential ==
    InDirectory =>
        /\ \A i \in Invocations : i < Len(log) => Returned(i)
        /\ Cardinality(InFlight) <= 1
        /\ (stmt # NoStmt) <=> (pc = "pd_exec")
        /\ (InFlight # {}) <=> (pc = "pd_exec")
        /\ pc = "pd_exec" =>
               /\ stmt = log[Len(log)].stmt
               /\ visited[Len(visited)] = log[Len(log)].file
               /\ Len(table) = log[Len(log)].rowsBefore
        /\ \A i \in Invocations :
               i > 1 => log[i].rowsBefore = log[i - 1].rowsAfter

\* the second file's statement awaits the store after the first file's row
\* has been inserted
C16_Witness ==
    /\ InDirectory
    /\ pc = "pd_exec"
    /\ Len(log) = 2
    /\ log[1].res.ok
    /\ log[2].rowsBefore = log[1].rowsBefore + 1
    /\ InFlight = {2}

\* name is what follows the last separator of path
IsLastComponentOf(name, path) ==
    \E k \in 0..Len(path) :
        /\ name = SubSeq(path, k + 1, Len(path))
        /\ \A j \in 1..Len(name) : name[j] # "/"
        /\ k > 0 => path[k] = "/"

\* the row holds the name of the file at path and the document it holds
RowOfFile(row, file) ==
    /\ row.file_name.kind = "text"
    /\ \E name \in {SubSeq(file.path, k, Len(file.path)) :
                         k \in 1..Len(file.path) + 1} :
           /\ IsLastComponentOf(name, file.path)
           /\ row.file_name.text = IF IsUtf8(name) THEN name ELSE Unknown
    /\ row.data = BindJson(from_str(file.text).val)

\* C18: the row a successful process_file inserts holds the file's name
\* (the last component of its path, or "unknown" when that is not UTF-8)
\* and the document parsed from that same file; rows of different files of
\* one scan each pair a file's name with that file's document.
C18_RowCarriesNameAndData ==
    \A i \in Invocations :
        log[i].res.ok =>
            /\ log[i].rowsAfter \in 1..Len(table)
            /\ RowOfFile(table[log[i].rowsAfter], log[i].file)

\* a scan that inserted the rows of a.json and of the file without a UTF-8
\* name, whose documents differ
C18_Witness ==
    /\ InDirectory
    /\ Len(log) = 2
    /\ log[1].res.ok /\ log[2].res.ok
    /\ log[1].file.text # log[2].file.text
    /\ \E i \in 1..2 : ~IsUtf8(log[i].file.path)
    /\ \E r \in 1..Len(table) : table[r].file_name.text = Unknown

\* a file named by a path with a directory in front has been inserted
C18_WitnessNested ==
    /\ op = "process_file"
    /\ result.ok
    /\ LastComponent(log[1].file.path) # log[1].file.path

\* the statement as text: the placeholders are $1, $2, ...
RECURSIVE Joined(_)

Joined(names) ==
    IF names = <<>> THEN ""
    ELSE IF Len(names) = 1 THEN names[1]
    ELSE names[1] \o ", " \o Joined(Tail(names))

Placeholder(j) == <<"$1", "$2", "$3", "$4", "$5", "$6">>[j]

StatementText(st) ==
    "INSERT INTO " \o st.table \o " (" \o Joined(st.columns) \o ") VALUES ("
    \o Joined([j \in 1..Len(st.values) |-> Placeholder(j)]) \o ")"

\* the keys of a document, at every depth
RECURSIVE DocKeys(_)

DocKeys(v) ==
    IF v.t = "scalar" THEN {}
    ELSE LET kids == {v.items[j][2] : j \in 1..Len(v.items)}
             own  == IF v.t = "object"
                     THEN {v.items[j][1] : j \in 1..Len(v.items)} ELSE {}
         IN  own \cup UNION {DocKeys(k) : k \in kids}

\* the columns of json_data the statement names
TableColumns == {"file_name", "data"}

\* the invocation read its file and parsed a document from it
Parsed(i) == Readable(log[i].file) /\ from_str(log[i].file.text).ok

\* C22 as claimed: process_file rejects a document with a flattened key
\* that matches no column of the table, and the text of a statement it
\* builds holds no key of the document but those that are columns.
C22_RejectsUnknownKeys ==
    \A i \in Invocations :
        Parsed(i) =>
            /\ ~(DOMAIN flatten(ParsedDoc(i), "") \subseteq TableColumns) =>
                   /\ ~Bound(i)
                   /\ log[i].stmt = NoStmt
                   /\ Returned(i) /\ ~log[i].res.ok
            /\ Bound(i) =>
                   Columns(log[i].stmt) \cap DocKeys(ParsedDoc(i)) \subseteq TableColumns

\* C22 as amended: no key of the document reaches the statement's text,
\* which is the same text for every document; process_file rejects no
\* document for its keys: every document that parses is bound whole to the
\* data column and handed to the store.
C22_StatementTextIsFixed ==
    \A i \in Invocations :
        Parsed(i) =>
            /\ Bound(i)
            /\ StatementText(log[i].stmt) =
                   "INSERT INTO json_data (file_name, data) VALUES ($1, $2)"
            /\ Columns(log[i].stmt) \cap DocKeys(ParsedDoc(i)) = {}
            /\ \A j \in Invocations :
                   Parsed(j) =>
                       StatementText(log[j].stmt) = StatementText(log[i].stmt)

\* a scan has built the statements of two documents with different keys
C22_Witness ==
    /\ InDirectory
    /\ Len(log) = 2
    /\ Parsed(1) /\ Parsed(2)
    /\ DocKeys(ParsedDoc(1)) # DocKeys(ParsedDoc(2))
    /\ DocKeys(ParsedDoc(1)) # {}
    /\ log[1].res.ok /\ log[2].res.ok

\* positions of the listing at which it yielded an unreadable entry
EntryErrors == {k \in 1..Len(visited) : visited[k].path = <<>>}

\* C23: when the listing yields an entry that cannot be read,
\* process_directory returns DirectoryError with that entry's error at
\* once: the entry is the last one taken, no statement is in flight, no
\* further entry can be taken, and the rows of the files processed before
\* it are in the table.
C23_EntryErrorAborts ==
    \A k \in EntryErrors :
        /\ k = Len(visited)
        /\ pc = "done"
        /\ result = Err("DirectoryError",
                        "Failed to read entry: " \o visited[k].status)
        /\ \A file \in Listable : ~CanYield(file)
        /\ stmt = NoStmt
        /\ \A i \in Invocations : Returned(i)
        /\ Len(NewRows) = Cardinality({i \in Invocations : log[i].res.ok})
        /\ \A i \in Invocations :
               log[i].res.ok =>
                   RowOfFile(table[log[i].rowsAfter], log[i].file)

\* the scan inserted the row of one file and then met an unreadable entry
C23_Witness ==
    /\ InDirectory
    /\ EntryErrors = {2}
    /\ Len(log) = 1
    /\ log[1].res.ok
    /\ Len(table) = Len(table0) + 1
    /\ ~result.ok

\* how many times the invocation handed its statement to the store
ExecuteSteps(i) ==
    Cardinality({j \in 1..Len(log[i].steps) : log[i].steps[j] = "execute"})

\* C24: nothing is retried: a scan takes every entry once and passes it to
\* process_file at most once, and a process_file call reads, parses and
\* binds once and has its statement executed at most once, after which it
\* has returned, whether the store accepted or refused it.
C24_NothingRetried ==
    /\ \A k, l \in 1..Len(visited) :
           (k # l /\ visited[k].path # <<>>) => visited[k].path # visited[l].path
    /\ \A i, j \in Invocations : i # j => log[i].file.path # log[j].file.path
    /\ \A i \in Invocations :
           /\ ExecuteSteps(i) <= 1
           /\ ExecuteSteps(i) = 1 <=> log[i].store # "none"
           /\ ExecuteSteps(i) = 1 => Returned(i)
           /\ log[i].steps \in {<<"read">>, <<"read", "parse">>,
                                 <<"read", "parse", "bind">>,
                                 <<"read", "parse", "bind", "execute">>}
           /\ log[i].rowsAfter - log[i].rowsBefore \in {0, 1}
           /\ log[i].store \in StoreErrors => log[i].rowsAfter = log[i].rowsBefore

\* a scan whose first file the store refused went on to its second file
C24_Witness ==
    /\ InDirectory
    /\ pc = "done"
    /\ Len(log) = 2
    /\ log[1].store \in StoreErrors
    /\ ExecuteSteps(1) = 1
    /\ log[2].res.ok

\* the entries taken so far whose name is a stem followed by ".json"
JsonEntries == {k \in 1..Len(visited) : StemDotJson(visited[k].path)}

\* C25: at every point of a scan processed_files + failed_files is the
\* number of .json entries whose process_file has returned (all of those
\* taken, but the one whose statement is in flight), processed_files is the
\* number of rows the scan has inserted and failed_files the number of
\* calls that returned an error; when the scan completes the sum is the
\* number of .json entries of the directory.
C25_CountsAggregate ==
    InDirectory =>
        /\ processed_files + failed_files =
               Cardinality({i \in Invocations : Returned(i)})
        /\ processed_files + failed_files =
               Cardinality(JsonEntries) - (IF pc = "pd_exec" THEN 1 ELSE 0)
        /\ processed_files = Len(NewRows)
        /\ processed_files = Cardinality({i \in Invocations : log[i].res.ok})
        /\ failed_files = Cardinality({i \in Invocations : Failed(i)})
        /\ (pc = "done" /\ result.ok) =>
               processed_files + failed_files = Cardinality(JsonEntries)

\* a completed scan of a directory with a skipped entry counted one
\* success and one failure
C25_Witness ==
    /\ InDirectory
    /\ pc = "done"
    /\ result.ok
    /\ processed_files = 1
    /\ failed_files = 1
    /\ Len(table) = Len(table0) + 1

\* a scan that skipped an entry has counted one processed file
C25_WitnessSkip ==
    /\ InDirectory
    /\ pc = "done"
    /\ result.ok
    /\ Len(visited) = 2
    /\ processed_files + failed_files = 1

(***************************************************************************)
(* Properties of flatten.                                                  *)
(***************************************************************************)
RECURSIVE LeafPaths(_), JoinPath(_), ValueAt(_, _)

\* the key paths from the root to the values that are not objects
LeafPaths(tree) ==
    IF tree.t # "object" THEN {<<>>}
    ELSE UNION { { <<tree.items[i][1]>> \o p :
                     p \in LeafPaths(tree.items[i][2]) } :
                 i \in 1..Len(tree.items) }

\* the keys of a path joined with "_"
JoinPath(p) ==
    IF p = <<>> THEN ""
    ELSE IF Len(p) = 1 THEN p[1]
    ELSE p[1] \o "_" \o JoinPath(Tail(p))

\* the value a path leads to
ValueAt(tree, p) ==
    IF p = <<>> THEN tree
    ELSE LET i == CHOOSE j \in 1..Len(tree.items) : tree.items[j][1] = p[1]
         IN  ValueAt(tree.items[i][2], Tail(p))

NumLeaves(tree) == Cardinality(LeafPaths(tree))

\* no two leaves of the tree have the same compound key
DistinctKeys(tree) ==
    \A p, q \in LeafPaths(tree) : JoinPath(p) = JoinPath(q) => p = q

\* C10 as claimed: the FlatRecord has exactly one entry per leaf of the
\* tree.
C10_EntryPerLeaf ==
    fpc = "flattened" => Cardinality(DOMAIN flat) = NumLeaves(doc)

\* C10 as amended: the keys of the FlatRecord are exactly the compound keys
\* of the leaves and every entry holds the value of a leaf with that key,
\* so there are at most as many entries as leaves, and exactly as many (no
\* leaf value lost) when no two leaves have the same compound key.
C10_EntryPerLeafKey ==
    fpc = "flattened" =>
        /\ DOMAIN flat = {JoinPath(p) : p \in LeafPaths(doc)}
        /\ \A k \in DOMAIN flat :
               \E p \in LeafPaths(doc) :
                   JoinPath(p) = k /\ flat[k] = ValueAt(doc, p)
        /\ Cardinality(DOMAIN flat) <= NumLeaves(doc)
        /\ DistinctKeys(doc) => Cardinality(DOMAIN flat) = NumLeaves(doc)

C10_Witness ==
    /\ fpc = "flattened"
    /\ NumLeaves(doc) = 2
    /\ DistinctKeys(doc)
    /\ \E p \in LeafPaths(doc) : Len(p) = 2
    /\ Cardinality(DOMAIN flat) = 2

\* the leaves of the tree that are arrays
ArrayLeaves(tree) == {p \in LeafPaths(tree) : ValueAt(tree, p).t = "array"}

\* C11 as claimed: every array of the tree, at any depth, is the entry of
\* its accumulated key, verbatim.
C11_ArrayAlwaysStored ==
    fpc = "flattened" =>
        \A p \in ArrayLeaves(doc) :
            /\ JoinPath(p) \in DOMAIN flat
            /\ flat[JoinPath(p)] = ValueAt(doc, p)

\* C11 as amended: flatten never expands arrays: no key comes from an
\* array index or from inside an array element (every key is the compound
\* key of a path of object keys that ends at a non-object value), every
\* array in the result is an array of the tree, verbatim, and an array of
\* the tree is the entry of its accumulated key unless another leaf with
\* the same compound key has taken that entry.
C11_ArraysNotExpanded ==
    fpc = "flattened" =>
        /\ DOMAIN flat = {JoinPath(p) : p \in LeafPaths(doc)}
        /\ \A k \in DOMAIN flat :
               flat[k].t = "array" =>
                   \E p \in ArrayLeaves(doc) :
                       JoinPath(p) = k /\ flat[k] = ValueAt(doc, p)
        /\ \A p \in ArrayLeaves(doc) :
               \/ flat[JoinPath(p)] = ValueAt(doc, p)
               \/ \E q \in LeafPaths(doc) :
                      /\ q # p
                      /\ JoinPath(q) = JoinPath(p)
                      /\ flat[JoinPath(p)] = ValueAt(doc, q)

C11_Witness ==
    /\ fpc = "flattened"
    /\ \E p \in ArrayLeaves(doc) :
           /\ Len(p) = 2
           /\ ValueAt(doc, p).items[1][2].t = "object"
           /\ flat[JoinPath(p)] = ValueAt(doc, p)

\* the object has no member that is an object
AlreadyFlat(tree) ==
    /\ tree.t = "object"
    /\ \A i \in 1..Len(tree.items) : tree.items[i][2].t # "object"

\* a FlatRecord read as a JSON object, its entries in some order
AsObject(rec) ==
    LET keys == DOMAIN rec
        n    == Cardinality(keys)
        ord  == CHOOSE f \in [1..n -> keys] : {f[i] : i \in 1..n} = keys
    IN  JObject([i \in 1..n |-> <<ord[i], rec[ord[i]]>>])

\* C12: on an object none of whose values is an object, flatten(v, "")
\* has exactly the keys and values of v; and flattening the result of any
\* flatten again gives the same FlatRecord.
C12_IdentityOnFlat ==
    fpc = "flattened" =>
        /\ AlreadyFlat(doc) =>
               /\ DOMAIN flat = {doc.items[i][1] : i \in 1..Len(doc.items)}
               /\ \A i \in 1..Len(doc.items) :
                      flat[doc.items[i][1]] = doc.items[i][2]
        /\ flatten(AsObject(flat), "") = flat

C12_Witness ==
    /\ fpc = "flattened"
    /\ AlreadyFlat(doc)
    /\ Len(doc.items) = 3
    /\ \E i \in 1..3 : doc.items[i][2].t = "array"
    /\ \E i \in 1..3 : doc.items[i][2].t = "scalar"

\* C13: when the value handed to flatten is not an object, the result is
\* the single entry prefix -> value (the empty prefix at top level); and
\* flatten can be applied to every tree.
C13_TopLevelLeaf ==
    /\ fpc = "building" => ENABLED Flatten
    /\ doc.t # "object" =>
           /\ flatten(doc, "") = ("" :> doc)
           /\ flatten(doc, "p") = ("p" :> doc)
           /\ fpc = "flattened" => flat = ("" :> doc)

C13_Witness ==
    /\ fpc = "flattened"
    /\ doc.t = "array"
    /\ DOMAIN flat = {""}
    /\ flat[""] = doc

RECURSIVE LeafPathSeq(_)

\* the leaf paths in the order flatten processes them
LeafPathSeq(tree) ==
    IF tree.t # "object" THEN << <<>> >>
    ELSE LET n == Len(tree.items)
             S[i \in 0..n] ==
                 IF i = 0 THEN <<>>
                 ELSE LET sub == LeafPathSeq(tree.items[i][2])
                      IN  S[i - 1] \o
                          [j \in 1..Len(sub) |-> <<tree.items[i][1]>> \o sub[j]]
         IN  S[n]

\* the leaf with compound key k that is processed last
LastWithKey(tree, k) ==
    LET sq   == LeafPathSeq(tree)
        hits == {i \in 1..Len(sq) : JoinPath(sq[i]) = k}
    IN  sq[CHOOSE i \in hits : \A j \in hits : j <= i]

\* C14: the result has one entry per compound key, and when several
\* leaves have the same compound key the entry holds the value of the one
\* processed last.
C14_LaterOverwrites ==
    fpc = "flattened" =>
        /\ DOMAIN flat = {JoinPath(p) : p \in LeafPaths(doc)}
        /\ \A k \in DOMAIN flat : flat[k] = ValueAt(doc, LastWithKey(doc, k))

C14_Witness ==
    /\ fpc = "flattened"
    /\ \E p, q \in LeafPaths(doc) :
           /\ p # q
           /\ JoinPath(p) = JoinPath(q)
           /\ ValueAt(doc, p) # ValueAt(doc, q)
           /\ flat[JoinPath(p)] = ValueAt(doc, q)
           /\ LastWithKey(doc, JoinPath(p)) = q

(***************************************************************************)
(* Properties of process_file under concurrent callers.                    *)
(***************************************************************************)
SucceededTasks == {c \in Callers : tasks[c].pc = "done" /\ tasks[c].res.ok}

\* what a call on file returns when the store answers it with store
ResultAlone(file, store) ==
    IF ~Readable(file) THEN Err("FileReadError", file.status)
    ELSE IF ~from_str(file.text).ok THEN Err("JsonParseError", "syntax")
    ELSE IF store = "ok" THEN Ok
    ELSE Err("DatabaseError", store)

\* C17: whatever the interleaving of the callers, each call returns what it
\* returns on its file alone, the row it inserts holds its own file's name
\* and document, and the rows added to the table are exactly one per
\* successful call.
C17_IndependentCalls ==
    /\ SubSeq(table, 1, Len(table0)) = table0
    /\ Len(NewRows) = Cardinality(SucceededTasks)
    /\ \A c \in Callers :
           tasks[c].pc = "done" =>
               /\ tasks[c].res = ResultAlone(tasks[c].file, tasks[c].store)
               /\ tasks[c].res.ok <=> tasks[c].store = "ok"
               /\ ~tasks[c].res.ok => tasks[c].row = 0
               /\ tasks[c].res.ok =>
                      /\ tasks[c].row \in Len(table0) + 1..Len(table)
                      /\ RowOfFile(table[tasks[c].row], tasks[c].file)
    /\ \A c, d \in SucceededTasks : c # d => tasks[c].row # tasks[d].row

\* two calls on different files overlapped (both were made before either
\* row was inserted) and the caller that called second was served first
C17_Witness ==
    /\ SucceededTasks = Callers
    /\ \A c \in Callers : tasks[c].rowsBefore = Len(table0)
    /\ tasks[1].file.text # tasks[2].file.text
    /\ tasks[1].file.path # tasks[2].file.path
    /\ tasks[1].row > tasks[2].row

(***************************************************************************)
(* Properties of the user repository.  What the table should hold is read  *)
(* off the statements the store has executed, in the order it executed     *)
(* them.                                                                   *)
(***************************************************************************)
Executions(h, name, id) ==
    {i \in 1..Len(h) : h[i].op = name /\ h[i].id = id /\ h[i].store = "ok"}

\* a user with this id was created and not since deleted
Live(h, id) ==
    \E i \in Executions(h, "create_user", id) :
        \A j \in Executions(h, "delete_user", id) : j < i

\* the value last written to a field of the user: by create_user, or by an
\* update_user that passed Some
LastWritten(h, id, field) ==
    LET W == {i \in Executions(h, "create_user", id)
                     \cup Executions(h, "update_user", id) :
                 h[i][field] # None}
        last == CHOOSE i \in W : \A j \in W : j <= i
    IN  h[last][field][1]

\* C19: get_user(id) returns Ok(Some(user)) exactly when a user with that
\* id was created and not since deleted, with the username and email last
\* written for it, and Ok(None) otherwise; at every moment the table holds
\* exactly the rows that make it so.
C19_GetUserReflectsWrites ==
    /\ \A id \in UserIds \cup OtherIds :
           /\ Matching(users, id) # {} <=> Live(history, id)
           /\ Cardinality(Matching(users, id)) <= 1
           /\ \A r \in Matching(users, id) :
                  /\ r.username = LastWritten(history, id, "username")
                  /\ r.email = LastWritten(history, id, "email")
    /\ \A i \in 1..Len(history) :
           (history[i].op = "get_user" /\ history[i].store = "ok") =>
               LET h   == SubSeq(history, 1, i - 1)
                   id  == history[i].id
                   res == history[i].result
               IN  /\ res.ok
                   /\ res.some <=> Live(h, id)
                   /\ res.some =>
                          /\ res.user.id = id
                          /\ res.user.username = LastWritten(h, id, "username")
                          /\ res.user.email = LastWritten(h, id, "email")
                   /\ ~res.some => res.user = NoUser /\ res.err = "none"
                   /\ history[i].after = history[i].before

\* get_user has returned a user whose username an update_user wrote
C19_Witness ==
    \E i \in 1..Len(history) :
        /\ history[i].op = "get_user"
        /\ history[i].result.some
        /\ history[i].result.user.username = "bob"
        /\ history[i].result.user.email = "a@x"

\* get_user has returned None for the id of no user and for a deleted user
C19_WitnessNone ==
    \E i \in 1..Len(history) :
        /\ history[i].op = "get_user"
        /\ history[i].result.ok
        /\ ~history[i].result.some
        /\ history[i].id \in issued

\* the update_user statements the store has executed
Updates ==
    {i \in 1..Len(history) :
        history[i].op = "update_user" /\ history[i].store = "ok"}

\* what update_user leaves of row r when it is given username and email
Given(opt, stored) == IF opt = None THEN stored ELSE opt[1]

\* the rows of the other users
Others(rows, id) == {r \in rows : r.id # id}

\* the executed update e changed, in the row r of its user, the fields it
\* was given and nothing else but updated_at, and no other row
ChangesOnlyGiven(e) ==
    /\ Others(e.after, e.id) = Others(e.before, e.id)
    /\ Cardinality(Matching(e.after, e.id)) = Cardinality(Matching(e.before, e.id))
    /\ \A r \in Matching(e.before, e.id) :
           \E r2 \in Matching(e.after, e.id) :
               /\ r2.id = r.id
               /\ r2.username = Given(e.username, r.username)
               /\ r2.email = Given(e.email, r.email)
               /\ r2.created_at = r.created_at
               /\ e.result = UserResult(TRUE, TRUE, r2, FALSE, "none")
    /\ Matching(e.before, e.id) = {} =>
           e.result = UserResult(TRUE, FALSE, NoUser, FALSE, "none")

\* C20: update_user on an existing id keeps a field passed as None, writes
\* a field passed as Some, leaves the id and every other user's row as they
\* were, and makes updated_at strictly later than it was.
C20_UpdateChangesOnlyGiven ==
    \A i \in Updates :
        /\ ChangesOnlyGiven(history[i])
        /\ \A r \in Matching(history[i].before, history[i].id) :
               \A r2 \in Matching(history[i].after, history[i].id) :
                   r2.updated_at > r.updated_at

\* C20 without the order of the time stamps: the fields, the id and the
\* other rows are as claimed, and updated_at is the reading of the store's
\* clock at the start of the statement, later than the row's updated_at
\* unless a statement that started later has written the row before.
C20_UpdatedAtIsStatementStart ==
    \A i \in Updates :
        /\ ChangesOnlyGiven(history[i])
        /\ \A r \in Matching(history[i].before, history[i].id) :
               \A r2 \in Matching(history[i].after, history[i].id) :
                   /\ r2.updated_at = history[i].stamp
                   /\ r2.updated_at <= r.updated_at =>
                          \E j \in 1..(i - 1) :
                              /\ history[j].id = history[i].id
                              /\ history[j].store = "ok"
                              /\ history[j].stamp = r.updated_at
                              /\ history[j].stamp > history[i].stamp

\* two updates of one user have been executed, each with a field passed as
\* None and the other as Some
C20_Witness ==
    \E i, j \in Updates :
        /\ i < j
        /\ history[i].id = history[j].id
        /\ history[i].result.some /\ history[j].result.some
        /\ history[i].username = None /\ history[i].email # None
        /\ history[j].username # None /\ history[j].email = None

\* the delete_user statements the store has executed
Deletes ==
    {i \in 1..Len(history) :
        history[i].op = "delete_user" /\ history[i].store = "ok"}

\* C21: delete_user(id) returns true exactly when a user with that id
\* existed and this call removed it, false when none existed; it removes
\* no other row; after a delete that returned true every later get_user(id)
\* returns None and every later delete_user(id) returns false.
C21_DeleteReportsRemoval ==
    \A i \in Deletes :
        LET e  == history[i]
            h  == SubSeq(history, 1, i - 1)
        IN  /\ e.result.ok
            /\ e.result.flag <=> Live(h, e.id)
            /\ e.result.flag <=> Matching(e.before, e.id) # {}
            /\ Matching(e.after, e.id) = {}
            /\ Others(e.after, e.id) = Others(e.before, e.id)
            /\ e.result.flag =>
                   \A j \in (i + 1)..Len(history) :
                       (history[j].id = e.id /\ history[j].store = "ok") =>
                           /\ history[j].op = "get_user" =>
                                  /\ history[j].result.ok
                                  /\ ~history[j].result.some
                           /\ history[j].op = "delete_user" =>
                                  ~history[j].result.flag

\* a user has been deleted (true) and deleted again (false)
C21_Witness ==
    \E i, j \in Deletes :
        /\ i < j
        /\ history[i].id = history[j].id
        /\ history[i].result.flag
        /\ ~history[j].result.flag
        /\ users = {}

(***************************************************************************)
(* Properties of the mutations, their events and the subscription.         *)
(***************************************************************************)
\* the statements of the given sort the store executed without error
Committed(what) ==
    {i \in 1..Len(writes) : /\ writes[i].what = what
                            /\ writes[i].store = NoMutationError
                            /\ writes[i].row # None}

\* the row a committed statement handed back
RowOfWrite(i) == writes[i].row[1]

\* C26: every row a create mutation stored has status Pending and
\* created_at equal to updated_at, whatever name was given, and is the one
\* row the statement added; a row whose status is not Pending got that
\* status from an update_*_status mutation on its table and id.
C26_CreatedPending ==
    /\ \A i \in Committed("create") :
            LET row == RowOfWrite(i)
            IN  /\ row.status = "Pending"
                /\ row.created_at = row.updated_at
                /\ row.kind = writes[i].kind
                /\ row.name = writes[i].name
                /\ writes[i].after = writes[i].before \cup {row}
    /\ \A r \in entities :
            r.status # "Pending" =>
                \E i \in Committed("update") :
                    /\ writes[i].kind = r.kind
                    /\ writes[i].id = r.id
                    /\ writes[i].given = r.status

\* C26 witness: a create mutation of this behaviour stored a row, and a row
\* has left Pending.
C26_Witness ==
    /\ \E i \in Committed("create") : writes[i].at >= 0
    /\ \E r \in entities : r.status # "Pending"

\* the events a mutation sent for the statement at position i of the store
EventsOf(i) == {k \in 1..Len(emitted) : emitted[k].write = i}

\* the statement at position i has returned to its caller
ReturnedWrite(i) == writes[i].result # MutationPending

\* C27: every event was sent for a statement the store had executed without
\* error and that handed back a row, and carries that row's id and status
\* and the event type of its mutation; a mutation that has returned after
\* such a statement sent exactly one event, and none sent more; an
\* update_*_status that matched no row returned None, left every row as it
\* was and sent no event; a mutation whose statement failed returned the
\* error, left every row as it was and sent no event.
C27_EventsFollowWrites ==
    /\ \A k \in 1..Len(emitted) :
            LET i == emitted[k].write
            IN  /\ i \in Committed("create") \cup Committed("update")
                /\ emitted[k].event.entity_id = RowOfWrite(i).id
                /\ emitted[k].event.status = Some(RowOfWrite(i).status)
                /\ emitted[k].event.event_type
                        = EventType(writes[i].kind, writes[i].what)
                /\ RowOfWrite(i).id = writes[i].id
                /\ RowOfWrite(i).status = writes[i].given
    /\ \A i \in 1..Len(writes) :
            /\ Cardinality(EventsOf(i)) <= 1
            /\ Cardinality(EventsOf(i)) = writes[i].sends
            /\ ReturnedWrite(i) /\ writes[i].row # None
                    => Cardinality(EventsOf(i)) = 1
            /\ writes[i].row = None =>
                    /\ EventsOf(i) = {}
                    /\ writes[i].after = writes[i].before
                    /\ writes[i].result =
                            IF writes[i].store = NoMutationError
                            THEN MutationOk(None)
                            ELSE MutationErr(writes[i].store)

\* C27 witness: an update_job_status has sent its event, and another
\* update_*_status matched no row while rows of its table existed.
C27_Witness ==
    /\ \E k \in 1..Len(emitted) :
            emitted[k].event.event_type = "JobStatusUpdated"
    /\ \E i \in 1..Len(writes) :
            /\ writes[i].what = "update"
            /\ writes[i].store = NoMutationError
            /\ writes[i].row = None
            /\ writes[i].before # {}

\* the JobStatusUpdated events sent for the job with this id
JobEvents(id) ==
    {k \in 1..Len(emitted) :
        /\ emitted[k].event.event_type = "JobStatusUpdated"
        /\ emitted[k].event.entity_id = id}

\* the mutation of statement i returned before the one of statement j began
ReturnedBefore(i, j) ==
    /\ ReturnedWrite(i)
    /\ writes[j].at >= writes[i].until

\* the update_job_status calls that wrote the job with this id
JobUpdates(id) ==
    {i \in Committed("update") : writes[i].kind = "job" /\ writes[i].id = id}

\* no two of the calls that wrote this job overlapped
OneAtATime(id) ==
    \A i, j \in JobUpdates(id) :
        i # j => ReturnedBefore(i, j) \/ ReturnedBefore(j, i)

\* every mutation has returned
Quiet == \A c \in Callers : requests[c] = NoRequest

\* the last JobStatusUpdated event sent for this job
LastJobEvent(id) ==
    emitted[CHOOSE k \in JobEvents(id) : \A l \in JobEvents(id) : l <= k]

\* C28 as stated: the JobStatusUpdated events of one job are sent in the
\* order in which the store applied their updates, and once every call has
\* returned the last of them carries the status the job has in the store.
C28_EventsInWriteOrder ==
    /\ \A r \in entities : \A k, l \in JobEvents(r.id) :
            k < l => emitted[k].write < emitted[l].write
    /\ Quiet =>
            \A r \in entities :
                r.kind = "job" /\ JobEvents(r.id) # {}
                    => LastJobEvent(r.id).event.status = Some(r.status)

\* C28 amended: every JobStatusUpdated event carries the status its own
\* update wrote; two update_job_status calls on one job of which the first
\* returned before the second began have their updates applied and their
\* events sent in that order; and once every call has returned, the last
\* event of a job whose calls never overlapped carries the stored status.
C28_OrderedWithoutOverlap ==
    /\ \A r \in entities : \A k \in JobEvents(r.id) :
            emitted[k].event.status = Some(writes[emitted[k].write].given)
    /\ \A r \in entities : \A k, l \in JobEvents(r.id) :
            ReturnedBefore(emitted[k].write, emitted[l].write)
                => k < l /\ emitted[k].write < emitted[l].write
    /\ Quiet =>
            \A r \in entities :
                r.kind = "job" /\ JobEvents(r.id) # {} /\ OneAtATime(r.id)
                    => LastJobEvent(r.id).event.status = Some(r.status)

\* C28 witness: two update_job_status calls on one job, the second begun
\* after the first returned, have both sent their events with different
\* statuses.
C28_Witness ==
    /\ Quiet
    /\ \E r \in entities : \E k, l \in JobEvents(r.id) :
            /\ ReturnedBefore(emitted[k].write, emitted[l].write)
            /\ emitted[k].event.status # emitted[l].event.status

\* two update_job_status calls on one job overlapped, and the events came
\* in the order opposite to the updates
C28_Overlapped ==
    \E r \in entities : \E k, l \in JobEvents(r.id) :
        /\ k < l
        /\ emitted[k].write > emitted[l].write
        /\ ~ ReturnedBefore(emitted[k].write, emitted[l].write)
        /\ ~ ReturnedBefore(emitted[l].write, emitted[k].write)

\* the clients that have called etl_events
Subscribed == {s \in Subscribers : subscribers[s] # NoSubscriber}

\* how many values the channel has stored that this receiver has not taken
Behind(s) == channel.tail - subscribers[s].next

\* what a stream has yielded is the run of events sent since it subscribed
DeliveredInOrder ==
    \A s \in Subscribed :
        \A n \in 1..Len(subscribers[s].delivered) :
            /\ subscribers[s].since + n <= Len(emitted)
            /\ subscribers[s].delivered[n].seq = subscribers[s].since + n
            /\ subscribers[s].delivered[n].event
                    = emitted[subscribers[s].since + n].event

\* a step of a stream that is more than Capacity values behind ends it and
\* yields nothing
LaggedEnds ==
    \A s \in Subscribed :
        Behind(s) > Capacity /\ subscribers'[s] # subscribers[s]
            => /\ subscribers'[s].pc = "ended"
               /\ subscribers'[s].delivered = subscribers[s].delivered

RowsAfter(i) ==
    LET w == writes[i]
    IN  IF w.what = "create"
        THEN w.before \cup
                {[kind |-> w.kind, id |-> w.id, name |-> w.name,
                  status |-> "Pending", extra |-> None,
                  created_at |-> w.at, updated_at |-> w.at]}
        ELSE {IF r.kind = w.kind /\ r.id = w.id
              THEN [r EXCEPT !.status = w.given,
                             !.extra = IF w.kind = "job" THEN @ ELSE w.extra,
                             !.updated_at = w.at]
              ELSE r : r \in w.before}

\* C30: whatever receivers the channel had when a mutation sent its event,
\* none, one or two, behind or not, the statement it committed left the
\* rows its arguments and the rows before it determine, and the mutation
\* returned Ok with the row the statement handed back; a send that failed
\* for want of receivers changed neither.
C30_OutcomeIgnoresSubscribers ==
    \A k \in 1..Len(emitted) :
        LET i == emitted[k].write
        IN  /\ emitted[k].sent.ok = (emitted[k].sent.receivers > 0)
            /\ writes[i].after = RowsAfter(i)
            /\ RowOfWrite(i) \in writes[i].after
            /\ writes[i].result = MutationOk(writes[i].row)

\* C30 witness: one mutation sent its event to no receiver and returned
\* its row; another sent its event to two receivers, one of which had not
\* taken an earlier value yet.
C30_Witness ==
    /\ \E k \in 1..Len(emitted) :
            /\ writes[emitted[k].write].at >= 0
            /\ ~ emitted[k].sent.ok
            /\ writes[emitted[k].write].result
                    = MutationOk(writes[emitted[k].write].row)
    /\ \E k \in 1..Len(emitted) : emitted[k].sent.receivers = 2
    /\ \E s \in Subscribed : Behind(s) >= 1

====
